---- MODULE Spec2Model ----
(***************************************************************************)
(* A model of dns-syncer: the cached public-IP fetchers (HttpFetcher and   *)
(* the process-wide GlobalFetcher), the fill of unassigned record content  *)
(* from a PublicIp, and the Cloudflare zone synchronisation.               *)
(*                                                                         *)
(* Time is counted in whole seconds.  An Instant is never stored: for each *)
(* cache the model keeps last_fetch_time.elapsed(), the only way the code  *)
(* reads it.  Option<T> is a sequence of length at most one.               *)
(***************************************************************************)
EXTENDS Integers, Sequences, FiniteSets, TLC

VARIABLES
    fetcher,      \* the HttpFetcher: backends, cache_alive_time, cache, elapsed
    pc,           \* position of the caller of HttpFetcher::fetch
    partial,      \* `ret` of do_fetch_from_backends, one per caller (0 = the direct caller)
    call,         \* what the caller of a fetch saw and got: see NoCall
    global,       \* the GlobalFetcher behind GLOBAL_FETCHER: lifetime, cache_result, elapsed
                  \* (and filled_by, the caller whose fetch() wrote cache_result)
    lockOwner,    \* holder of the GLOBAL_FETCHER mutex, 0 when free
    gpc,          \* position of each caller of fetcher::global::fetch
    fillArg,      \* a call of assign_public_ip_if_unassigned: record, v4, v6
    fillRet,      \* None, or Some of what that call returned and left in the record
    topology,     \* BackendRecords of one provider: zone name -> pending records
    publicIp,     \* the PublicIp handed to sync
    zoneCount,    \* zone name -> number of zones of that name in the account
    remote,       \* the DNS records held by the provider
    nextId,       \* the id the provider gives to the next record it creates
    pass,         \* number of sync passes started
    spc,          \* position of Cloudflare::sync
    remaining,    \* zone names of the topology not yet visited in this pass
    cur,          \* the zone being synced: its id and name, its prepared records,
                  \* the index of the record at hand and the ids to delete
    result,       \* None while a pass runs, else Some of what sync returned
    log,          \* requests of this pass: per zone name the numbers of zone
                  \* lookups, record lists and batches; ids created and deleted
                  \* by accepted batches; the last response received and the
                  \* number of responses with a status other than 200 or
                  \* success = false
    lastBatch,    \* None, or Some of the last batch request submitted
    prev,         \* how the pass before this one ended
    cfg,          \* config::Cfg: providers, fetchers, records, public_ip_fecher
    rpc,          \* position of main: in init_runner, in Runner::run, or after them
    todo,         \* to_provider_backends: the provider attachments still to process
    runner,       \* the Runner: fetchers, providers, record_per_provider
    run,          \* Runner::run: the fetches made, the snapshot taken, the providers
                  \* still to visit, the sync calls made and what run returned
    probe,        \* one call of HttpFetcherBackend::fetch_v4 / fetch_v6: the backend,
                  \* the address family and the HTTP response it gets
    probeRet      \* None, or Some of what that call returned

fetchVars == <<fetcher, pc, partial, call, global, lockOwner, gpc>>
fillVars == <<fillArg, fillRet>>
syncVars == <<topology, publicIp, zoneCount, remote, nextId, pass, spc, remaining,
              cur, result, log, lastBatch, prev>>
runVars == <<cfg, rpc, todo, runner, run>>
backendVars == <<probe, probeRet>>
vars == <<fetchVars, fillVars, syncVars, runVars, backendVars>>

----------------------------------------------------------------------------
(* Bounds of the model *)

\* last_fetch_time.elapsed() is counted up to this many seconds and then stays
MaxElapsed == 32
\* the backends answer with one of this many IPv4 addresses
NumV4 == 2
\* the backends answer with one of this many IPv6 addresses
NumV6 == 1
\* concurrent callers of fetcher::global::fetch
NumCallers == 2

----------------------------------------------------------------------------
(* Program constants *)

\* Response::into_body: the one status taken as success
HttpStatusOk == 200
\* the TTL::Value of the record of test_cf_record_op_purge
TestTtlSecs == 3600
\* HttpFetcher::new: cache_alive_time = Duration::from_secs(30)
DefaultCacheAliveSecs == 30
\* GlobalFetcher::default: lifetime = Duration::from_secs(20)
DefaultLifetimeSecs == 20

\* an Ipv4Addr is <<4, n>>, an Ipv6Addr is <<6, n>>
V4Addrs == {<<4, n>> : n \in 1..NumV4}
V6Addrs == {<<6, n>> : n \in 1..NumV6}
NoAddr == <<0, 0>>
Callers == 1..NumCallers
\* the direct caller of HttpFetcher::fetch (the Runner) is caller 0
Direct == 0

None == <<>>
Some(x) == <<x>>
Unwrap(o) == o[1]
Min(a, b) == IF a < b THEN a ELSE b

----------------------------------------------------------------------------
(* Records of the fetcher (src/src/record.rs) *)

RecordLabel(key, val) == [key |-> key, val |-> val]

\* enum RecordContent: A(Ipv4Addr), AAAA(Ipv6Addr), CNAME(String),
\* Unassigned(RecordType), Unknown; `text` holds the String or the RecordType
ContentA(ip) == [tag |-> "A", ip |-> ip, text |-> ""]
ContentAAAA(ip) == [tag |-> "AAAA", ip |-> ip, text |-> ""]
ContentCNAME(target) == [tag |-> "CNAME", ip |-> NoAddr, text |-> target]
Unassigned(ty) == [tag |-> "Unassigned", ip |-> NoAddr, text |-> ty]

\* FetcherRecord::new_v4_with_labels
new_v4_with_labels(ip, labels) == [value |-> ContentA(ip), labels |-> labels]
\* FetcherRecord::new_v6_with_labels
new_v6_with_labels(ip, labels) == [value |-> ContentAAAA(ip), labels |-> labels]

\* HttpFetcherBackend::parse_content gives the labels of a backend
BackendLabels(backend) == <<RecordLabel("backend", backend)>>

----------------------------------------------------------------------------
(* Provider records (src/src/record.rs) *)

\* enum TTL
TtlAuto == [tag |-> "Auto", secs |-> 0]
TtlValue(n) == [tag |-> "Value", secs |-> n]

ProviderParam(name, value) == [name |-> name, value |-> value]

\* struct ProviderRecord
ProviderRecord(name, content, comment, op, ttl, params) ==
    [name |-> name, content |-> content, comment |-> comment, op |-> op,
     ttl |-> ttl, params |-> params]

\* PublicIp::new
PublicIpNew(v4, v6) == [v4 |-> v4, v6 |-> v6]

\* Result<()> of assign_public_ip_if_unassigned, with the record as it is left
FillOk(record) == [ok |-> TRUE, record |-> record, err |-> ""]
FillErr(record, msg) == [ok |-> FALSE, record |-> record, err |-> msg]

\* a plausible slip: an address of the other family fills the record
assign_other_family(record, v4, v6) ==
    LET c == record.content IN
    IF c.tag = "Unassigned" /\ c.text = "A" /\ v4 # None
    THEN FillOk([record EXCEPT !.content = ContentA(Unwrap(v4))])
    ELSE IF c.tag = "Unassigned" /\ c.text = "AAAA" /\ v6 # None
    THEN FillOk([record EXCEPT !.content = ContentAAAA(Unwrap(v6))])
    ELSE IF c.tag = "Unassigned" /\ c.text = "A" /\ v6 # None
    THEN FillOk([record EXCEPT !.content = ContentA(Unwrap(v6))])
    ELSE IF c.tag = "Unassigned" /\ c.text = "AAAA" /\ v4 # None
    THEN FillOk([record EXCEPT !.content = ContentAAAA(Unwrap(v4))])
    ELSE IF c.tag = "Unassigned"
    THEN FillErr(record, "neither v4 nor v6 is provided")
    ELSE FillErr(record, "content should have a type")

\* ProviderRecord::assign_public_ip_if_unassigned: the arms of its match, in order
assign_public_ip_if_unassigned(record, v4, v6) ==
    LET c == record.content IN
    IF c.tag = "Unassigned" /\ c.text = "A" /\ v4 # None
    THEN FillOk([record EXCEPT !.content = ContentA(Unwrap(v4))])
    ELSE IF c.tag = "Unassigned" /\ c.text = "AAAA" /\ v6 # None
    THEN FillOk([record EXCEPT !.content = ContentAAAA(Unwrap(v6))])
    ELSE IF c.tag = "Unassigned"
    THEN FillErr(record, "neither v4 nor v6 is provided")
    ELSE FillErr(record, "content should have a type")

\* a plausible slip: every content is taken as still to fill
is_unassigned_always(content) == TRUE

\* RecordContent::is_unassigned
is_unassigned(content) == content.tag = "Unassigned"

\* the structures the fill is applied to
Names == {<<"home">>, <<"home", ".", "example.com">>}
Contents ==
    {Unassigned("A"), Unassigned("AAAA"), Unassigned("CNAME"), ContentCNAME("target.example.net")}
        \cup {ContentA(a) : a \in V4Addrs} \cup {ContentAAAA(a) : a \in V6Addrs}
Options(S) == {None} \cup {Some(x) : x \in S}
PublicIps == {PublicIpNew(o4, o6) : o4 \in Options(V4Addrs), o6 \in Options(V6Addrs)}

InitFillIdle ==
    /\ fillArg = [record |-> ProviderRecord(<<"home">>, Unassigned("A"), None, "Create",
                                            TtlAuto, <<>>),
                  ip |-> PublicIpNew(None, None)]
    /\ fillRet = None

\* a record as add_zone_record leaves it and a PublicIp are picked
FillPick ==
    /\ fillRet # None
    /\ \E name \in Names, content \in Contents, op \in {"Create", "Purge"}, ip \in PublicIps :
          fillArg' = [record |-> ProviderRecord(name, content, Some("managed"), op, TtlAuto,
                                                <<ProviderParam("proxied", "true")>>),
                      ip |-> ip]
    /\ fillRet' = None
    /\ UNCHANGED <<fetchVars, syncVars, runVars, backendVars>>

\* record.assign_public_ip_if_unassigned(v4, v6) with (v4, v6) = public_ip.ips()
FillApply ==
    /\ fillRet = None
    /\ fillRet' = Some(assign_public_ip_if_unassigned(fillArg.record, fillArg.ip.v4,
                                                       fillArg.ip.v6))
    /\ UNCHANGED <<fillArg, fetchVars, syncVars, runVars, backendVars>>

----------------------------------------------------------------------------
(* Cloudflare synchronisation *)

\* A name is a sequence of pieces of text; a zone name is one piece.
ZoneText(z) == <<z>>

\* str::ends_with
EndsWith(name, suffix) ==
    /\ Len(suffix) <= Len(name)
    /\ SubSeq(name, Len(name) - Len(suffix) + 1, Len(name)) = suffix

\* a plausible slip: every name gets ".<zone>"
QualifiedNameAlways(name, z) == name \o <<".">> \o ZoneText(z)

\* sync, step 2: a name that does not end with the zone's name gets ".<zone>"
QualifiedName(name, z) ==
    IF EndsWith(name, ZoneText(z)) THEN name ELSE name \o <<".">> \o ZoneText(z)

\* impl Serialize for RecordTTL: Auto is sent as 1
SerializeTtl(ttl) == IF ttl.tag = "Auto" THEN 1 ELSE ttl.secs

\* a plausible slip: a param called proxied is enough, whatever its value
ProxiedByName(params) ==
    \E i \in 1..Len(params) : params[i].name = "proxied"

\* the `proxied` of a CfRecord: some param is ("proxied", "true")
Proxied(params) ==
    \E i \in 1..Len(params) : params[i].name = "proxied" /\ params[i].value = "true"

\* the CfRecord posted for a prepared record
CfRecordFrom(record) ==
    [name |-> record.name,
     type |-> record.content.tag,
     content |-> record.content,
     comment |-> record.comment,
     proxied |-> Proxied(record.params),
     ttl |-> SerializeTtl(record.ttl)]

\* sync, step 2, for one record: the op is forced to Purge, the name is
\* qualified and content left unassigned is filled from the PublicIp
PrepareRecord(record, z, ip) ==
    LET named == [record EXCEPT !.op = "Purge", !.name = QualifiedName(record.name, z)]
    IN IF is_unassigned(named.content)
       THEN assign_public_ip_if_unassigned(named, ip.v4, ip.v6)
       ELSE FillOk(named)

\* sync, step 2, for the records of a zone: the first failure ends it
PrepareRecords(records, z, ip) ==
    LET each == [i \in 1..Len(records) |-> PrepareRecord(records[i], z, ip)]
    IN [ok |-> \A i \in 1..Len(records) : each[i].ok,
        records |-> [i \in 1..Len(records) |-> each[i].record]]

\* wrapper::http::Response with the `success` of the CfResponse in its body
Response(status, success) == [status |-> status, success |-> success]
Responses == {Response(st, su) : st \in {HttpStatusOk, 403, 500}, su \in BOOLEAN}

\* Response::into_body: Ok(body) for status 200, else Err
into_body(resp) == resp.status = HttpStatusOk

\* a plausible slip: the success flag is not looked at
into_json_any(resp) == TRUE

\* CfResponse::into_json: Ok(result) when success, else Err
into_json(resp) == resp.success

\* resp.into_body()? and then resp.into_json()? both pass
Accepted(resp) == into_body(resp) /\ into_json(resp)

\* the zones of the account called z
ZonesNamed(z, count) == [i \in 1..count |-> [id |-> <<z, i>>, name |-> z]]

\* a plausible slip: the first of several zones is taken
zone_list_first(zones) ==
    IF Len(zones) = 0 THEN [ok |-> TRUE, zone |-> None]
    ELSE [ok |-> TRUE, zone |-> Some(zones[1])]

\* a plausible slip: no zone is an error
zone_list_strict(zones) ==
    IF Len(zones) = 1 THEN [ok |-> TRUE, zone |-> Some(zones[1])]
    ELSE [ok |-> FALSE, zone |-> None]

\* zone_list, from the zones the API returned: Ok(None), Ok(Some(zone)) or Err
zone_list(zones) ==
    IF Len(zones) = 0 THEN [ok |-> TRUE, zone |-> None]
    ELSE IF Len(zones) = 1 THEN [ok |-> TRUE, zone |-> Some(zones[1])]
    ELSE [ok |-> FALSE, zone |-> None]

\* GET zones/<id>/dns_records?name=<name>&type=<type> at the provider
RecordsNamedTyped(records, zoneid, name, rtype) ==
    {r \in records : r.zone = zoneid /\ r.name = name /\ r.type = rtype}

\* the records of a zone with a name, of any type
RecordsNamed(records, zoneid, name) ==
    {r \in records : r.zone = zoneid /\ r.name = name}

\* CfClient::record_list, from the records the API returned:
\* Ok(None), Ok(Some(record)) or, for several records, Err
record_list(found) ==
    IF Cardinality(found) = 0 THEN [ok |-> TRUE, ids |-> {}]
    ELSE IF Cardinality(found) = 1 THEN [ok |-> TRUE, ids |-> {r.id : r \in found}]
    ELSE [ok |-> FALSE, ids |-> {}]

\* the provider applies a batch: the deletes go, the post gets a fresh id
ApplyBatch(records, zoneid, deletes, post, id) ==
    {r \in records : ~(r.zone = zoneid /\ r.id \in deletes)}
        \cup {[id |-> id, zone |-> zoneid, body |-> post, name |-> post.name,
               type |-> post.type]}

\* what a remote record is, whatever its id
Bodies(records) == {[zone |-> r.zone, body |-> r.body] : r \in records}

\* the configurations and the accounts the synchronisation is run on
Zone1 == "example.com"
Zone2 == "example.org"

RecHomeA ==
    ProviderRecord(<<"home">>, Unassigned("A"), Some("managed"), "Create", TtlAuto,
                   <<ProviderParam("proxied", "true")>>)
RecHomeAAAA ==
    ProviderRecord(<<"home">>, Unassigned("AAAA"), None, "Purge", TtlValue(TestTtlSecs), <<>>)
RecHomePurgeA ==
    ProviderRecord(<<"home", ".", Zone1>>, Unassigned("A"), None, "Purge", TtlAuto, <<>>)
RecWwwFixed ==
    ProviderRecord(<<"www">>, ContentA(<<4, 1>>), None, "Create", TtlAuto,
                   <<ProviderParam("proxied", "false")>>)

\* a name that ends with the zone's name with no dot before it
RecGluedA ==
    ProviderRecord(<<"home", Zone1>>, Unassigned("A"), None, "Create", TtlAuto, <<>>)

OneZone(z, records) == [x \in {z} |-> records]
TwoZones(r1, r2) == [x \in {Zone1, Zone2} |-> IF x = Zone1 THEN r1 ELSE r2]

Topologies ==
    { OneZone(Zone1, <<RecHomeA>>),
      OneZone(Zone1, <<RecHomePurgeA>>),
      OneZone(Zone1, <<RecHomeA, RecHomeAAAA>>),
      OneZone(Zone1, <<RecHomeA, RecHomePurgeA>>),
      TwoZones(<<RecHomeA>>, <<RecHomeAAAA>>),
      TwoZones(<<RecWwwFixed, RecHomeAAAA>>, <<RecHomeA>>),
      TwoZones(<<RecGluedA>>, <<RecHomePurgeA>>) }

SyncPublicIps ==
    {PublicIpNew(o4, o6) : o4 \in {None, Some(<<4, 1>>)}, o6 \in {None, Some(<<6, 1>>)}}

\* records found in the first zone called Zone1 before the first pass
OldBody(type, content) ==
    [name |-> <<"home", ".", Zone1>>, type |-> type, content |-> content,
     comment |-> None, proxied |-> FALSE, ttl |-> 1]
OldRecord(id, type, content) ==
    [id |-> id, zone |-> <<Zone1, 1>>, body |-> OldBody(type, content),
     name |-> <<"home", ".", Zone1>>, type |-> type]
OldA1 == OldRecord(1, "A", ContentA(<<4, 1>>))
OldA2 == OldRecord(2, "A", ContentA(<<4, 1>>))
OldCname == OldRecord(2, "CNAME", ContentCNAME("target.example.net"))
OldRemotes == { {}, {OldA1}, {OldA1, OldA2}, {OldA1, OldCname} }

NoCur == [zone |-> <<"", 0>>, name |-> "", records |-> <<>>, idx |-> 0, deletes |-> {}]
EmptyLog(zones) ==
    [lookups |-> [z \in zones |-> 0], lists |-> [z \in zones |-> 0],
     batches |-> [z \in zones |-> 0], created |-> {}, deleted |-> {}, refused |-> 0,
     last |-> Response(HttpStatusOk, TRUE)]
NoPrev == [ran |-> FALSE, ok |-> FALSE, bodies |-> {}, created |-> {}]
SyncOk == [ok |-> TRUE, err |-> ""]
SyncErr(msg) == [ok |-> FALSE, err |-> msg]

InitSyncWith(t, ip, counts, old) ==
    /\ topology = t
    /\ publicIp = ip
    /\ zoneCount = counts
    /\ remote = old
    /\ nextId = 3
    /\ pass = 0
    /\ spc = "idle"
    /\ remaining = {}
    /\ cur = NoCur
    /\ result = None
    /\ log = EmptyLog(DOMAIN t)
    /\ lastBatch = None
    /\ prev = NoPrev

InitSyncIdle ==
    InitSyncWith(OneZone(Zone1, <<RecHomeA>>), PublicIpNew(None, None),
                 [z \in {Zone1} |-> 1], {})

\* main before init_runner is called
NoCfg == [providers |-> <<>>, fetchers |-> <<>>, records |-> <<>>, public_ip_fecher |-> ""]
NoRunner == [fetchers |-> <<>>, providers |-> <<>>, record_per_provider |-> <<>>,
             init |-> None]
NoRun == [fetches |-> 0, fetch_failed |-> FALSE, snapshot |-> None, pending |-> {}, calls |-> <<>>, result |-> None]

InitRunIdle ==
    /\ cfg = NoCfg
    /\ rpc = "off"
    /\ todo = <<>>
    /\ runner = NoRunner
    /\ run = NoRun

\* the outcome of send() and text(): a transport error, or a status and a body
HttpResponse(sent, status, body) == [sent |-> sent, status |-> status, body |-> body]

\* no call of a backend is being looked at
NoProbe == [backend |-> "", family |-> "", response |-> HttpResponse(FALSE, 0, <<>>)]

InitBackendIdle ==
    /\ probe = NoProbe
    /\ probeRet = None

----------------------------------------------------------------------------
(* HttpFetcher (src/src/fetcher/http_fetcher.rs) *)

\* HttpFetcher::new
HttpFetcherNew ==
    [backends |-> <<"cloudflare", "ipw">>,
     cache_alive_time |-> DefaultCacheAliveSecs,
     cache |-> None,
     elapsed |-> 0]

\* HttpFetcher::backends_from_types: no backend enabled means the default ones
backends_from_types(types) ==
    IF types = <<>> THEN <<"cloudflare", "ipw">> ELSE types

\* A Param value is a string; the model keeps its two readings side by side:
\* split(',') of it (items) and parse::<u64>() of it (secs)
ParamValue(items, secs) == [items |-> items, secs |-> secs]

\* the value of the first parameter called `name`, as the reverse loop of
\* new_with_args leaves it (the first occurrence is assigned last)
ParamOr(args, name, dflt) ==
    IF \E i \in 1..Len(args) : args[i].name = name
    THEN args[CHOOSE i \in 1..Len(args) :
                 /\ args[i].name = name
                 /\ \A j \in 1..(i - 1) : args[j].name # name].value
    ELSE dflt

\* a plausible slip: the lifetime of new() where no parameter gives one
new_with_args_keeps_default(args) ==
    IF args = <<>>
    THEN HttpFetcherNew
    ELSE [backends |-> backends_from_types(ParamOr(args, "enabled", ParamValue(<<>>, 0)).items),
          cache_alive_time |-> ParamOr(args, "cache_alive_time",
                                       ParamValue(<<>>, DefaultCacheAliveSecs)).secs,
          cache |-> None,
          elapsed |-> 0]

\* HttpFetcher::new_with_args
new_with_args(args) ==
    IF args = <<>>
    THEN HttpFetcherNew
    ELSE [backends |-> backends_from_types(ParamOr(args, "enabled", ParamValue(<<>>, 0)).items),
          cache_alive_time |-> ParamOr(args, "cache_alive_time", ParamValue(<<>>, 0)).secs,
          cache |-> None,
          elapsed |-> 0]

\* the parameter lists the fetcher is built from
FetcherArgs ==
    { <<>>,
      <<[name |-> "enabled", value |-> ParamValue(<<"cloudflare">>, 0)]>>,
      <<[name |-> "cache_alive_time", value |-> ParamValue(<<>>, 2)]>>,
      <<[name |-> "enabled", value |-> ParamValue(<<"ipw">>, 0)],
        [name |-> "cache_alive_time", value |-> ParamValue(<<>>, 3)]>>,
      <<[name |-> "enabled", value |-> ParamValue(<<"ipw", "cloudflare">>, 0)]>> }

\* a plausible slip: the comparison of do_fetch turned around
NeedsFetchInverted(f) == f.cache = None \/ f.elapsed < f.cache_alive_time

\* the condition of HttpFetcher::do_fetch under which the backends are queried
NeedsFetch(f) == f.cache = None \/ f.elapsed > f.cache_alive_time

\* a plausible slip: every request goes to the first backend
RequestBackendFirst(f, done) == f.backends[1]

\* the request do_fetch_from_backends issues after `done` answers:
\* for each backend in order, its v4 address and then its v6 address
RequestBackend(f, done) == f.backends[(done \div 2) + 1]

\* a plausible slip: the v4 address is asked for twice
RequestFamilyV4Only(done) == "A"

\* after an even number of answers the v4 address is asked for, else the v6 one
RequestFamily(done) == IF done % 2 = 0 THEN "A" ELSE "AAAA"
RequestCount(f) == 2 * Len(f.backends)

\* the answers a request can get: an address of its family
Answers(family) == IF family = "A" THEN V4Addrs ELSE V6Addrs

\* HttpFetcherBackend::fetch_v4 / fetch_v6 on a good answer
FetchedRecord(backend, family, ip) ==
    IF family = "A"
    THEN new_v4_with_labels(ip, BackendLabels(backend))
    ELSE new_v6_with_labels(ip, BackendLabels(backend))

\* what a caller keeps of one fetch() call
\*   seen_cache, seen_elapsed : the cache and the elapsed time at the call
\*   requests                 : HTTP requests issued by the call so far
\*   ret                      : None while running, else Some of Ok or Err
NoCall == [seen_cache |-> None, seen_elapsed |-> 0, requests |-> 0, ret |-> None]
Ok(v) == [ok |-> TRUE, value |-> v]
Err == [ok |-> FALSE, value |-> <<>>]

globalVars == <<global, lockOwner, gpc>>

\* No caller is at the instant of its return.  A return is an instant: the
\* caller takes its result (FetchDone, GlobalFetchDone) before anything else
\* happens, so that `call` shows one finished call at a time.
NobodyReturns == pc # "returned" /\ \A c \in Callers : gpc[c] # "returned"

\* HttpFetcher::do_fetch, up to the first request
DoFetchBegin ==
    /\ pc = "idle"
    /\ IF NeedsFetch(fetcher)
       THEN /\ pc' = "fetching"
            /\ call' = [call EXCEPT ![Direct] =
                            [seen_cache |-> fetcher.cache, seen_elapsed |-> fetcher.elapsed,
                             requests |-> 0, ret |-> None]]
       ELSE /\ pc' = "returned"
            /\ call' = [call EXCEPT ![Direct] =
                            [seen_cache |-> fetcher.cache, seen_elapsed |-> fetcher.elapsed,
                             requests |-> 0, ret |-> Some(Ok(Unwrap(fetcher.cache)))]]
    /\ partial' = [partial EXCEPT ![Direct] = <<>>]
    /\ UNCHANGED <<fetcher, globalVars>>
    /\ UNCHANGED <<syncVars, fillVars, runVars, backendVars>>

\* a plausible slip: every address is asked for twice
DoFetchRequestOkAsksTwice ==
    /\ pc = "fetching"
    /\ LET done == Len(partial[Direct])
           backend == RequestBackend(fetcher, done)
           family == RequestFamily(done)
       IN \E ip \in Answers(family) :
            LET records == Append(partial[Direct], FetchedRecord(backend, family, ip))
            IN IF Len(records) = RequestCount(fetcher)
               THEN /\ fetcher' = [fetcher EXCEPT !.cache = Some(records), !.elapsed = 0]
                    /\ partial' = [partial EXCEPT ![Direct] = <<>>]
                    /\ pc' = "returned"
                    /\ call' = [call EXCEPT ![Direct].requests = @ + 2,
                                            ![Direct].ret = Some(Ok(records))]
               ELSE /\ partial' = [partial EXCEPT ![Direct] = records]
                    /\ call' = [call EXCEPT ![Direct].requests = @ + 2]
                    /\ UNCHANGED <<fetcher, pc>>
    /\ UNCHANGED globalVars
    /\ UNCHANGED <<syncVars, fillVars, runVars, backendVars>>

\* one request of do_fetch_from_backends answered with an address; the last one
\* completes do_fetch: the cache is replaced and last_fetch_time is now
DoFetchRequestOk ==
    /\ pc = "fetching"
    /\ LET done == Len(partial[Direct])
           backend == RequestBackend(fetcher, done)
           family == RequestFamily(done)
       IN \E ip \in Answers(family) :
            LET records == Append(partial[Direct], FetchedRecord(backend, family, ip))
            IN IF Len(records) = RequestCount(fetcher)
               THEN /\ fetcher' = [fetcher EXCEPT !.cache = Some(records), !.elapsed = 0]
                    /\ partial' = [partial EXCEPT ![Direct] = <<>>]
                    /\ pc' = "returned"
                    /\ call' = [call EXCEPT ![Direct].requests = @ + 1,
                                            ![Direct].ret = Some(Ok(records))]
               ELSE /\ partial' = [partial EXCEPT ![Direct] = records]
                    /\ call' = [call EXCEPT ![Direct].requests = @ + 1]
                    /\ UNCHANGED <<fetcher, pc>>
    /\ UNCHANGED globalVars
    /\ UNCHANGED <<syncVars, fillVars, runVars, backendVars>>

\* a plausible slip: the cache is cleared when a request fails
DoFetchRequestErrDropsCache ==
    /\ pc = "fetching"
    /\ partial' = [partial EXCEPT ![Direct] = <<>>]
    /\ pc' = "returned"
    /\ call' = [call EXCEPT ![Direct].requests = @ + 1, ![Direct].ret = Some(Err)]
    /\ fetcher' = [fetcher EXCEPT !.cache = None]
    /\ UNCHANGED globalVars
    /\ UNCHANGED <<syncVars, fillVars, runVars, backendVars>>

\* one request fails (transport, status, body or address literal): the `?` of
\* do_fetch_from_backends and of do_fetch return the error at once
DoFetchRequestErr ==
    /\ pc = "fetching"
    /\ partial' = [partial EXCEPT ![Direct] = <<>>]
    /\ pc' = "returned"
    /\ call' = [call EXCEPT ![Direct].requests = @ + 1, ![Direct].ret = Some(Err)]
    /\ UNCHANGED <<fetcher, globalVars>>
    /\ UNCHANGED <<syncVars, fillVars, runVars, backendVars>>

\* the caller takes the result
FetchDone ==
    /\ pc = "returned"
    /\ pc' = "idle"
    /\ call' = [call EXCEPT ![Direct] = NoCall]
    /\ UNCHANGED <<fetcher, partial, globalVars>>
    /\ UNCHANGED <<syncVars, fillVars, runVars, backendVars>>

\* one second passes for the HttpFetcher
Tick ==
    /\ NobodyReturns
    /\ fetcher.elapsed < MaxElapsed
    /\ fetcher' = [fetcher EXCEPT !.elapsed = @ + 1]
    /\ UNCHANGED <<pc, partial, call, globalVars>>
    /\ UNCHANGED <<syncVars, fillVars, runVars, backendVars>>

\* GlobalFetcher::default; its fetcher is the variable `fetcher`
GlobalFetcherDefault ==
    [lifetime |-> DefaultLifetimeSecs, cache_result |-> <<>>, elapsed |-> 0, filled_by |-> 0]

InitFetchCommon ==
    /\ pc = "idle"
    /\ partial = [c \in {Direct} \cup Callers |-> <<>>]
    /\ call = [c \in {Direct} \cup Callers |-> NoCall]
    /\ global = GlobalFetcherDefault
    /\ lockOwner = 0
    /\ gpc = [c \in Callers |-> "idle"]

\* one HttpFetcher, built by create_fetchers with new_with_args, and one caller
InitFetch ==
    /\ \E args \in FetcherArgs : fetcher = new_with_args(args)
    /\ InitFetchCommon
    /\ InitFillIdle
    /\ InitSyncIdle
    /\ InitRunIdle
    /\ InitBackendIdle

NextFetch ==
    \/ DoFetchBegin
    \/ DoFetchRequestOk
    \/ DoFetchRequestErr
    \/ FetchDone
    \/ Tick

SpecFetch == InitFetch /\ [][NextFetch]_vars

----------------------------------------------------------------------------
(* The process-wide fetcher (src/src/fetcher/global.rs) *)

\* GlobalFetcher::is_fresh
is_fresh(g) == g.elapsed < g.lifetime /\ g.cache_result # <<>>

\* a plausible slip: fetch() not waiting for the mutex
LockFreeAlways(owner) == TRUE

\* GLOBAL_FETCHER.lock() returns when no other caller holds the guard
LockFree(owner) == owner = 0

\* fetch(): the lock is taken and the cache is looked at; a stale cache sends
\* the call on to the boxed HttpFetcher, which may answer from its own cache
GlobalFetchBegin(c) ==
    /\ gpc[c] = "idle"
    /\ NobodyReturns
    /\ LockFree(lockOwner)
    /\ partial' = [partial EXCEPT ![c] = <<>>]
    /\ LET seen == [seen_cache |-> IF global.cache_result = <<>> THEN None
                                   ELSE Some(global.cache_result),
                    seen_elapsed |-> global.elapsed,
                    requests |-> 0, ret |-> None]
       IN IF is_fresh(global)
          THEN /\ call' = [call EXCEPT ![c] = [seen EXCEPT !.ret = Some(Ok(global.cache_result))]]
               /\ gpc' = [gpc EXCEPT ![c] = "returned"]
               /\ UNCHANGED <<global, fetcher, lockOwner>>
          ELSE IF NeedsFetch(fetcher)
          THEN /\ call' = [call EXCEPT ![c] = seen]
               /\ gpc' = [gpc EXCEPT ![c] = "fetching"]
               /\ lockOwner' = c
               /\ UNCHANGED <<global, fetcher>>
          ELSE /\ call' = [call EXCEPT ![c] = [seen EXCEPT !.ret = Some(Ok(Unwrap(fetcher.cache)))]]
               /\ global' = [global EXCEPT !.cache_result = Unwrap(fetcher.cache), !.elapsed = 0,
                                        !.filled_by = c]
               /\ gpc' = [gpc EXCEPT ![c] = "returned"]
               /\ UNCHANGED <<fetcher, lockOwner>>
    /\ UNCHANGED pc
    /\ UNCHANGED <<syncVars, fillVars, runVars, backendVars>>

\* a request of the boxed fetcher is answered; after the last one both caches
\* are replaced, both timestamps are now and the guard is dropped
GlobalFetchRequestOk(c) ==
    /\ gpc[c] = "fetching"
    /\ NobodyReturns
    /\ LET done == Len(partial[c])
           backend == RequestBackend(fetcher, done)
           family == RequestFamily(done)
       IN \E ip \in Answers(family) :
            LET records == Append(partial[c], FetchedRecord(backend, family, ip))
            IN IF Len(records) = RequestCount(fetcher)
               THEN /\ fetcher' = [fetcher EXCEPT !.cache = Some(records), !.elapsed = 0]
                    /\ global' = [global EXCEPT !.cache_result = records, !.elapsed = 0,
                                             !.filled_by = c]
                    /\ partial' = [partial EXCEPT ![c] = <<>>]
                    /\ gpc' = [gpc EXCEPT ![c] = "returned"]
                    /\ lockOwner' = IF lockOwner = c THEN 0 ELSE lockOwner
                    /\ call' = [call EXCEPT ![c].requests = @ + 1,
                                            ![c].ret = Some(Ok(records))]
               ELSE /\ partial' = [partial EXCEPT ![c] = records]
                    /\ call' = [call EXCEPT ![c].requests = @ + 1]
                    /\ UNCHANGED <<fetcher, global, gpc, lockOwner>>
    /\ UNCHANGED pc
    /\ UNCHANGED <<syncVars, fillVars, runVars, backendVars>>

\* a plausible slip: the guard outlives a failed refresh
GlobalFetchRequestErrKeepsLock(c) ==
    /\ gpc[c] = "fetching"
    /\ NobodyReturns
    /\ partial' = [partial EXCEPT ![c] = <<>>]
    /\ gpc' = [gpc EXCEPT ![c] = "returned"]
    /\ call' = [call EXCEPT ![c].requests = @ + 1, ![c].ret = Some(Err)]
    /\ UNCHANGED <<fetcher, global, pc, lockOwner>>
    /\ UNCHANGED <<syncVars, fillVars, runVars, backendVars>>

\* a request of the boxed fetcher fails: fetch() returns the error through `?`,
\* the guard is dropped, nothing else is written
GlobalFetchRequestErr(c) ==
    /\ gpc[c] = "fetching"
    /\ NobodyReturns
    /\ partial' = [partial EXCEPT ![c] = <<>>]
    /\ gpc' = [gpc EXCEPT ![c] = "returned"]
    /\ lockOwner' = IF lockOwner = c THEN 0 ELSE lockOwner
    /\ call' = [call EXCEPT ![c].requests = @ + 1, ![c].ret = Some(Err)]
    /\ UNCHANGED <<fetcher, global, pc>>
    /\ UNCHANGED <<syncVars, fillVars, runVars, backendVars>>

\* the caller takes the result
GlobalFetchDone(c) ==
    /\ gpc[c] = "returned"
    /\ gpc' = [gpc EXCEPT ![c] = "idle"]
    /\ call' = [call EXCEPT ![c] = NoCall]
    /\ UNCHANGED <<fetcher, global, partial, lockOwner, pc>>
    /\ UNCHANGED <<syncVars, fillVars, runVars, backendVars>>

\* set_global_fetcher with the only configuration a caller can build
\* (GlobalFetcherCfg::default): a new GlobalFetcher with a new HttpFetcher
set_global_fetcher ==
    /\ LockFree(lockOwner)
    /\ NobodyReturns
    /\ global.cache_result # <<>>
    /\ global' = GlobalFetcherDefault
    /\ fetcher' = HttpFetcherNew
    /\ UNCHANGED <<pc, partial, call, lockOwner, gpc>>
    /\ UNCHANGED <<syncVars, fillVars, runVars, backendVars>>

\* one second passes for both caches
GlobalTick ==
    /\ NobodyReturns
    /\ fetcher.elapsed < MaxElapsed \/ global.elapsed < MaxElapsed
    /\ fetcher' = [fetcher EXCEPT !.elapsed = Min(@ + 1, MaxElapsed)]
    /\ global' = [global EXCEPT !.elapsed = Min(@ + 1, MaxElapsed)]
    /\ UNCHANGED <<pc, partial, call, lockOwner, gpc>>
    /\ UNCHANGED <<syncVars, fillVars, runVars, backendVars>>

\* GLOBAL_FETCHER holds GlobalFetcher::default(), whose fetcher is HttpFetcher::new()
InitGlobal ==
    /\ fetcher = HttpFetcherNew
    /\ InitFetchCommon
    /\ InitFillIdle
    /\ InitSyncIdle
    /\ InitRunIdle
    /\ InitBackendIdle

NextGlobal ==
    \/ \E c \in Callers : GlobalFetchBegin(c)
    \/ \E c \in Callers : GlobalFetchRequestOk(c)
    \/ \E c \in Callers : GlobalFetchRequestErr(c)
    \/ \E c \in Callers : GlobalFetchDone(c)
    \/ set_global_fetcher
    \/ GlobalTick

SpecGlobal == InitGlobal /\ [][NextGlobal]_vars

\* one lifetime of the GlobalFetcher passes for both caches: the clock of
\* GlobalTick in steps that take a cache from fresh to stale
GlobalLapse ==
    /\ NobodyReturns
    /\ fetcher.elapsed < MaxElapsed \/ global.elapsed < MaxElapsed
    /\ fetcher' = [fetcher EXCEPT !.elapsed = Min(@ + global.lifetime, MaxElapsed)]
    /\ global' = [global EXCEPT !.elapsed = Min(@ + global.lifetime, MaxElapsed)]
    /\ UNCHANGED <<pc, partial, call, lockOwner, gpc>>
    /\ UNCHANGED <<syncVars, fillVars, runVars, backendVars>>

NextGlobalFair ==
    \/ \E c \in Callers : GlobalFetchBegin(c)
    \/ \E c \in Callers : GlobalFetchRequestOk(c)
    \/ \E c \in Callers : GlobalFetchRequestErr(c)
    \/ \E c \in Callers : GlobalFetchDone(c)
    \/ set_global_fetcher
    \/ GlobalLapse

\* every caller's thread runs on: a request of do_fetch_from_backends that is
\* under way is answered, with an address or with a failure, and a caller
\* whose fetch() has returned takes the result
FairGlobal ==
    \A c \in Callers :
       /\ WF_vars(GlobalFetchRequestOk(c) \/ GlobalFetchRequestErr(c))
       /\ WF_vars(GlobalFetchDone(c))

\* the shared fetch() with callers that run on and requests that are answered
SpecGlobalFair == InitGlobal /\ [][NextGlobalFair]_vars /\ FairGlobal

----------------------------------------------------------------------------
(* The fill on its own *)

InitFill ==
    /\ InitFetchCommon
    /\ fetcher = HttpFetcherNew
    /\ InitSyncIdle
    /\ InitRunIdle
    /\ InitBackendIdle
    /\ fillRet = None
    /\ \E name \in Names, content \in Contents, op \in {"Create", "Purge"}, ip \in PublicIps :
          fillArg = [record |-> ProviderRecord(name, content, Some("managed"), op, TtlAuto,
                                               <<ProviderParam("proxied", "true")>>),
                     ip |-> ip]

NextFill == FillApply \/ FillPick

SpecFill == InitFill /\ [][NextFill]_vars

----------------------------------------------------------------------------
(* Cloudflare::sync over the zones of one provider, pass after pass *)

\* passes run one after the other on the same account
MaxPasses == 2

Fail(msg) ==
    /\ spc' = "done"
    /\ result' = Some(SyncErr(msg))

Bump(field, z, resp) ==
    [log EXCEPT ![field][z] = @ + 1,
                !.last = resp,
                !.refused = @ + (IF resp.status = HttpStatusOk /\ resp.success THEN 0 ELSE 1)]

\* a pass starts: sync(records, public_ip) is called
SyncBegin ==
    /\ spc \in {"idle", "done"}
    /\ pass < MaxPasses
    /\ pass' = pass + 1
    /\ spc' = "zones"
    /\ remaining' = DOMAIN topology
    /\ result' = None
    /\ cur' = NoCur
    /\ lastBatch' = None
    /\ log' = EmptyLog(DOMAIN topology)
    /\ prev' = IF spc = "done"
               THEN [ran |-> TRUE, ok |-> result[1].ok, bodies |-> Bodies(remote),
                     created |-> log.created]
               ELSE NoPrev
    /\ UNCHANGED <<topology, publicIp, zoneCount, remote, nextId, fetchVars, fillVars, runVars, backendVars>>

\* steps 1 and 2 for the next zone of the map: the zone is looked up by name,
\* a zone not found is skipped, and the records of a zone found are prepared
SyncZoneLookup ==
    /\ spc = "zones"
    /\ \E z \in remaining, resp \in Responses :
         LET zl == zone_list(ZonesNamed(z, zoneCount[z]))
             prep == PrepareRecords(topology[z], z, publicIp)
         IN /\ log' = Bump("lookups", z, resp)
            /\ IF ~Accepted(resp)
               THEN Fail("zone list failed") /\ UNCHANGED <<remaining, cur>>
               ELSE IF ~zl.ok
               THEN Fail("multiple zones found") /\ UNCHANGED <<remaining, cur>>
               ELSE IF zl.zone = None
               THEN /\ remaining' = remaining \ {z}
                    /\ UNCHANGED <<spc, result, cur>>
               ELSE IF ~prep.ok
               THEN Fail("record cannot be filled") /\ UNCHANGED <<remaining, cur>>
               ELSE /\ cur' = [zone |-> Unwrap(zl.zone).id, name |-> z,
                               records |-> prep.records, idx |-> 1, deletes |-> {}]
                    /\ spc' = "list"
                    /\ UNCHANGED <<remaining, result>>
    /\ UNCHANGED <<topology, publicIp, zoneCount, remote, nextId, pass, lastBatch, prev,
                   fetchVars, fillVars, runVars, backendVars>>

\* record_op_force_overwrite, first half: the records to replace are listed
SyncRecordList ==
    /\ spc = "list"
    /\ \E resp \in Responses :
         LET post == CfRecordFrom(cur.records[cur.idx])
             rl == record_list(RecordsNamedTyped(remote, cur.zone, post.name, post.type))
         IN /\ log' = Bump("lists", cur.name, resp)
            /\ IF ~Accepted(resp)
               THEN Fail("record list failed") /\ UNCHANGED cur
               ELSE IF ~rl.ok
               THEN Fail("multiple records found") /\ UNCHANGED cur
               ELSE /\ cur' = [cur EXCEPT !.deletes = rl.ids]
                    /\ spc' = "batch"
                    /\ UNCHANGED result
    /\ UNCHANGED <<topology, publicIp, zoneCount, remote, nextId, pass, remaining, lastBatch,
                   prev, fetchVars, fillVars, runVars, backendVars>>

\* record_op_force_overwrite, second half: the batch is posted
SyncRecordBatch ==
    /\ spc = "batch"
    /\ \E resp \in Responses :
         LET post == CfRecordFrom(cur.records[cur.idx])
             last == cur.idx = Len(cur.records)
         IN /\ lastBatch' = Some([zone |-> cur.zone, deletes |-> cur.deletes,
                                  posts |-> <<post>>, op |-> topology[cur.name][cur.idx].op,
                                  source |-> topology[cur.name][cur.idx],
                                  same_name |-> {r.id : r \in RecordsNamed(remote, cur.zone,
                                                                           post.name)}])
            /\ IF ~Accepted(resp)
               THEN /\ Fail("batch failed")
                    /\ log' = Bump("batches", cur.name, resp)
                    /\ UNCHANGED <<remote, nextId, cur, remaining>>
               ELSE /\ remote' = ApplyBatch(remote, cur.zone, cur.deletes, post, nextId)
                    /\ nextId' = nextId + 1
                    /\ log' = [Bump("batches", cur.name, resp) EXCEPT
                                  !.created = @ \cup {nextId},
                                  !.deleted = @ \cup cur.deletes]
                    /\ cur' = IF last THEN NoCur
                              ELSE [cur EXCEPT !.idx = @ + 1, !.deletes = {}]
                    /\ remaining' = IF last THEN remaining \ {cur.name} ELSE remaining
                    /\ spc' = IF last THEN "zones" ELSE "list"
                    /\ UNCHANGED result
    /\ UNCHANGED <<topology, publicIp, zoneCount, pass, prev, fetchVars, fillVars, runVars, backendVars>>

\* every zone has been visited: sync returns Ok(())
SyncEnd ==
    /\ spc = "zones"
    /\ remaining = {}
    /\ spc' = "done"
    /\ result' = Some(SyncOk)
    /\ UNCHANGED <<topology, publicIp, zoneCount, remote, nextId, pass, remaining, cur, log,
                   lastBatch, prev, fetchVars, fillVars, runVars, backendVars>>

InitSync ==
    /\ InitRunIdle
    /\ InitBackendIdle
    /\ InitFetchCommon
    /\ fetcher = HttpFetcherNew
    /\ InitFillIdle
    /\ \E t \in Topologies, ip \in SyncPublicIps, old \in OldRemotes :
         \E counts \in [DOMAIN t -> 0..2] :
            InitSyncWith(t, ip, counts, IF counts[Zone1] = 0 THEN {} ELSE old)

NextSync ==
    \/ SyncBegin
    \/ SyncZoneLookup
    \/ SyncRecordList
    \/ SyncRecordBatch
    \/ SyncEnd

SpecSync == InitSync /\ [][NextSync]_vars

----------------------------------------------------------------------------
(* The runner (src/cmd/main.rs) and its configuration (src/cmd/config.rs) *)

\* struct CfgProviderAuthentication
CfgProviderAuthentication(method, params) == [method |-> method, params |-> params]

\* CfgProviderAuthentication::get_value_ref: the value of the first param called key
get_value_ref(auth, key) ==
    LET found == {i \in 1..Len(auth.params) : auth.params[i].name = key}
    IN IF found = {} THEN None
       ELSE Some(auth.params[CHOOSE i \in found : \A j \in found : i <= j].value)

\* enum Auth, and the Result of the conversion
ApiToken(token) == [ok |-> TRUE, kind |-> "ApiToken", token |-> token, email |-> "", key |-> ""]
ApiKey(email, key) == [ok |-> TRUE, kind |-> "ApiKey", token |-> "", email |-> email, key |-> key]
AuthErr(msg) == [ok |-> FALSE, kind |-> msg, token |-> "", email |-> "", key |-> ""]

\* impl TryFrom<CfgProviderAuthentication> for Auth
try_from(auth) ==
    IF auth.method = "api_token"
    THEN IF get_value_ref(auth, "api_token") = None
         THEN AuthErr("api_token is not found")
         ELSE ApiToken(Unwrap(get_value_ref(auth, "api_token")))
    ELSE IF auth.method = "api_key"
    THEN IF get_value_ref(auth, "email") # None /\ get_value_ref(auth, "key") # None
         THEN ApiKey(Unwrap(get_value_ref(auth, "email")), Unwrap(get_value_ref(auth, "key")))
         ELSE AuthErr("api_key auth requires both email and key")
    ELSE AuthErr("unsupported authentication method")

\* struct CfgProvider, CfgFetcher, CfgRecordProvider, CfgRecordItem, Cfg
CfgProvider(name, type, auth) == [name |-> name, type |-> type, authentication |-> auth]
CfgFetcher(name, type, params) == [name |-> name, type |-> type, params |-> params]
CfgRecordProvider(name, zones, params) == [name |-> name, zones |-> zones, params |-> params]
CfgRecordItem(record, providers, fetchers) ==
    [record |-> record, providers |-> providers, fetchers |-> fetchers]
Cfg(providers, fetchers, records, public_ip_fecher) ==
    [providers |-> providers, fetchers |-> fetchers, records |-> records,
     public_ip_fecher |-> public_ip_fecher]

\* CfgRecord::into_provider_record: the record with the params of the attachment
into_provider_record(record, params) == [record EXCEPT !.params = params]

Range(seq) == {seq[i] : i \in 1..Len(seq)}

\* list_in_use_providers: the provider names the records attach to
list_in_use_providers(records) ==
    {p.name : p \in UNION {Range(r.providers) : r \in Range(records)}}

\* a plausible slip: the public-IP fetcher is not added
list_in_use_fethers_of_records(records, public_ip_fecher) ==
    UNION {Range(r.fetchers) : r \in Range(records)}

\* list_in_use_fethers: the fetcher names of the records and the public-IP fetcher
list_in_use_fethers(records, public_ip_fecher) ==
    UNION {Range(r.fetchers) : r \in Range(records)} \cup {public_ip_fecher}

\* collect::<HashMap<_, _>>() of (name, value) pairs: the last pair of a name stays
Collect(pairs) ==
    [n \in {pr.name : pr \in Range(pairs)} |->
        pairs[CHOOSE i \in 1..Len(pairs) :
                 /\ pairs[i].name = n
                 /\ \A j \in 1..Len(pairs) : pairs[j].name = n => j <= i].value]

\* create_providers: the declared providers in use, of type cloudflare, whose
\* authentication converts
create_providers(records, providers) ==
    LET kept == SelectSeq(providers,
                   LAMBDA p : /\ p.name \in list_in_use_providers(records)
                              /\ p.type = "cloudflare"
                              /\ try_from(p.authentication).ok)
    IN Collect([i \in 1..Len(kept) |->
                  [name |-> kept[i].name, value |-> try_from(kept[i].authentication)]])

\* create_fetchers: the declared fetchers in use, of type http_fetcher
create_fetchers(records, public_ip_fecher, fetchers) ==
    LET kept == SelectSeq(fetchers,
                   LAMBDA f : /\ f.name \in list_in_use_fethers(records, public_ip_fecher)
                              /\ f.type = "http_fetcher")
    IN Collect([i \in 1..Len(kept) |->
                  [name |-> kept[i].name, value |-> new_with_args(kept[i].params)]])

\* a plausible slip: the records of a zone are replaced by the new one
add_zone_record_replacing(zones, zone, record, params) ==
    [z \in DOMAIN zones \cup {zone} |->
        IF z = zone THEN <<into_provider_record(record, params)>> ELSE zones[z]]

\* add_zone_record: the record is pushed on the zone's list, made if missing
add_zone_record(zones, zone, record, params) ==
    [z \in DOMAIN zones \cup {zone} |->
        IF z = zone
        THEN Append(IF zone \in DOMAIN zones THEN zones[zone] ELSE <<>>,
                    into_provider_record(record, params))
        ELSE zones[z]]

\* process_provider, the loop over provider.zones
RECURSIVE AddZones(_, _, _, _)
AddZones(zones, names, record, params) ==
    IF names = <<>> THEN zones
    ELSE AddZones(add_zone_record(zones, Head(names), record, params), Tail(names),
                  record, params)

\* process_provider: the provider's entry is made if missing, then filled
process_provider(records_map, record, provider) ==
    LET old == IF provider.name \in DOMAIN records_map THEN records_map[provider.name]
               ELSE <<>>
    IN [p \in DOMAIN records_map \cup {provider.name} |->
          IF p = provider.name
          THEN AddZones(old, provider.zones, record, provider.params)
          ELSE records_map[p]]

\* to_provider_backends / process_record_item: the attachments in the order
\* the two loops visit them
RECURSIVE Attachments(_)
Attachments(records) ==
    IF records = <<>> THEN <<>>
    ELSE [i \in 1..Len(Head(records).providers) |->
             [record |-> Head(records).record, provider |-> Head(records).providers[i]]]
         \o Attachments(Tail(records))

\* a plausible slip: the first entry of a family wins
RECURSIVE PublicIpFromFirst(_)
PublicIpFromFirst(contents) ==
    IF contents = <<>> THEN PublicIpNew(None, None)
    ELSE LET rest == PublicIpFromFirst(Tail(contents))
             c == Head(contents).value
         IN IF c.tag = "A" THEN PublicIpNew(Some(c.ip), rest.v6)
            ELSE IF c.tag = "AAAA" THEN PublicIpNew(rest.v4, Some(c.ip))
            ELSE rest

\* impl From<FetcherRecordSet> for PublicIp: the loop over set.contents
RECURSIVE PublicIpFrom(_)
PublicIpFrom(contents) ==
    IF contents = <<>> THEN PublicIpNew(None, None)
    ELSE LET before == PublicIpFrom(SubSeq(contents, 1, Len(contents) - 1))
             c == contents[Len(contents)].value
         IN IF c.tag = "A" THEN PublicIpNew(Some(c.ip), before.v6)
            ELSE IF c.tag = "AAAA" THEN PublicIpNew(before.v4, Some(c.ip))
            ELSE before

\* the configurations the runner is started with
TokenParam == ProviderParam("api_token", "TestToken")
EmailParam == ProviderParam("email", "test@example.com")
KeyParam == ProviderParam("key", "1234567890")
AuthParamLists ==
    {t \o e \o k : t \in {<<>>, <<TokenParam>>}, e \in {<<>>, <<EmailParam>>},
                   k \in {<<>>, <<KeyParam>>}}
Auths ==
    {CfgProviderAuthentication(m, ps) :
        m \in {"api_token", "api_key", "oauth"}, ps \in AuthParamLists}
TokenAuth == CfgProviderAuthentication("api_token", <<TokenParam>>)

ProxiedTrue == <<ProviderParam("proxied", "true")>>
ProxiedFalse == <<ProviderParam("proxied", "false")>>

\* CfgRecord: a ProviderRecord whose params are still to come
CfgHomeA == ProviderRecord(<<"home">>, Unassigned("A"), Some("managed"), "Create", TtlAuto, <<>>)
CfgHomeAAAA ==
    ProviderRecord(<<"home">>, Unassigned("AAAA"), None, "Purge", TtlValue(TestTtlSecs), <<>>)

RecordLists ==
    { <<CfgRecordItem(CfgHomeA, <<CfgRecordProvider("cf1", <<Zone1>>, ProxiedTrue)>>,
                      <<"http1">>)>>,
      <<CfgRecordItem(CfgHomeA, <<CfgRecordProvider("cf1", <<Zone1, Zone2>>, ProxiedTrue),
                                  CfgRecordProvider("cf2", <<Zone1>>, ProxiedFalse)>>, <<>>),
        CfgRecordItem(CfgHomeAAAA, <<CfgRecordProvider("cf1", <<Zone1>>, <<>>)>>,
                      <<"http2">>)>>,
      <<CfgRecordItem(CfgHomeA, <<CfgRecordProvider("cf1", <<Zone1>>, ProxiedTrue),
                                  CfgRecordProvider("cf1", <<Zone1, Zone1>>, ProxiedFalse)>>,
                      <<"http1", "http2">>),
        CfgRecordItem(CfgHomeA, <<CfgRecordProvider("cf2", <<>>, <<>>),
                                  CfgRecordProvider("cf1", <<Zone1>>, ProxiedTrue)>>, <<>>)>> }

Cfgs ==
    {Cfg(<<CfgProvider("cf1", "cloudflare", auth), CfgProvider("cf2", type2, TokenAuth),
           CfgProvider("cf3", "cloudflare", TokenAuth)>>,
         <<CfgFetcher("http1", "http_fetcher", <<>>),
           CfgFetcher("http2", ftype2, <<>>),
           CfgFetcher("spare", "http_fetcher", <<>>)>>,
         records, public) :
        auth \in Auths, type2 \in {"cloudflare", "route53"},
        ftype2 \in {"http_fetcher", "dns_fetcher"}, records \in RecordLists,
        public \in {"http2", "spare"}}

\* the longest FetcherRecordSet a fetch returns here
MaxSetLen == 2

\* what a Fetcher may return: records of either family and of neither
FetcherRecords ==
    {new_v4_with_labels(a, <<>>) : a \in V4Addrs}
        \cup {new_v6_with_labels(a, <<>>) : a \in V6Addrs}
        \cup {[value |-> ContentCNAME("target.example.net"), labels |-> <<>>]}
FetcherRecordSets == UNION {[1..n -> FetcherRecords] : n \in 0..MaxSetLen}

RunOk == [ok |-> TRUE, err |-> ""]
RunErr(msg) == [ok |-> FALSE, err |-> msg]

\* init_runner up to to_provider_backends: the fetchers and the providers
InitRunnerCreate ==
    /\ rpc = "main"
    /\ runner' = [runner EXCEPT
                     !.fetchers = create_fetchers(cfg.records, cfg.public_ip_fecher,
                                                  cfg.fetchers),
                     !.providers = create_providers(cfg.records, cfg.providers)]
    /\ todo' = Attachments(cfg.records)
    /\ rpc' = "backends"
    /\ UNCHANGED <<cfg, run, fetchVars, fillVars, syncVars, backendVars>>

\* to_provider_backends: process_provider for the next attachment
ProcessProvider ==
    /\ rpc = "backends"
    /\ todo # <<>>
    /\ runner' = [runner EXCEPT
                     !.record_per_provider =
                         process_provider(@, Head(todo).record, Head(todo).provider)]
    /\ todo' = Tail(todo)
    /\ UNCHANGED <<cfg, rpc, run, fetchVars, fillVars, syncVars, backendVars>>

\* init_runner returns Ok(Runner)
InitRunnerDone ==
    /\ rpc = "backends"
    /\ todo = <<>>
    /\ runner' = [runner EXCEPT !.init = Some(RunOk)]
    /\ rpc' = "ready"
    /\ UNCHANGED <<cfg, todo, run, fetchVars, fillVars, syncVars, backendVars>>

\* Runner::fetch_public_ip: self.fetchers.get_mut(name).unwrap() finds nothing
RunFetchPanic ==
    /\ rpc = "ready"
    /\ cfg.public_ip_fecher \notin DOMAIN runner.fetchers
    /\ rpc' = "panicked"
    /\ UNCHANGED <<cfg, todo, runner, run, fetchVars, fillVars, syncVars, backendVars>>

\* Runner::run, line 1: the fetch succeeds and the loop over the providers starts
RunFetchOk ==
    /\ rpc = "ready"
    /\ cfg.public_ip_fecher \in DOMAIN runner.fetchers
    /\ \E set \in FetcherRecordSets :
          run' = [run EXCEPT !.fetches = @ + 1,
                             !.snapshot = Some(set),
                             !.pending = DOMAIN runner.record_per_provider]
    /\ rpc' = "syncing"
    /\ UNCHANGED <<cfg, todo, runner, fetchVars, fillVars, syncVars, backendVars>>

\* a plausible slip: a failed fetch is taken as an empty snapshot
RunFetchErrGoesOn ==
    /\ rpc = "ready"
    /\ cfg.public_ip_fecher \in DOMAIN runner.fetchers
    /\ run' = [run EXCEPT !.fetches = @ + 1,
                          !.fetch_failed = TRUE,
                          !.snapshot = Some(<<>>),
                          !.pending = DOMAIN runner.record_per_provider]
    /\ rpc' = "syncing"
    /\ UNCHANGED <<cfg, todo, runner, fetchVars, fillVars, syncVars, backendVars>>

\* Runner::run, line 1: the fetch fails and `?` returns the error
RunFetchErr ==
    /\ rpc = "ready"
    /\ cfg.public_ip_fecher \in DOMAIN runner.fetchers
    /\ run' = [run EXCEPT !.fetches = @ + 1,
                          !.fetch_failed = TRUE,
                          !.result = Some(RunErr("fetch failed"))]
    /\ rpc' = "done"
    /\ UNCHANGED <<cfg, todo, runner, fetchVars, fillVars, syncVars, backendVars>>

\* a plausible slip: every provider is handed the same provider's records
SyncCallWholeMap(name, record_per_provider, snapshot) ==
    [provider |-> name,
     records |-> record_per_provider[CHOOSE p \in DOMAIN record_per_provider : TRUE],
     ip |-> PublicIpFrom(snapshot)]

\* provider.sync(backend.record.clone(), public_ip.clone().into())
SyncCall(name, record_per_provider, snapshot) ==
    [provider |-> name,
     records |-> record_per_provider[name],
     ip |-> PublicIpFrom(snapshot)]

\* Runner::run, the loop: self.providers.get_mut(provider_name).unwrap() finds nothing
RunSyncPanic ==
    /\ rpc = "syncing"
    /\ \E name \in run.pending : name \notin DOMAIN runner.providers
    /\ rpc' = "panicked"
    /\ UNCHANGED <<cfg, todo, runner, run, fetchVars, fillVars, syncVars, backendVars>>

\* Runner::run, the loop: the sync of the next provider of the map returns Ok
RunSyncOk ==
    /\ rpc = "syncing"
    /\ \E name \in run.pending :
          /\ name \in DOMAIN runner.providers
          /\ run' = [run EXCEPT
                        !.calls = Append(@, SyncCall(name, runner.record_per_provider,
                                                     Unwrap(run.snapshot))),
                        !.pending = @ \ {name}]
    /\ UNCHANGED <<cfg, rpc, todo, runner, fetchVars, fillVars, syncVars, backendVars>>

\* Runner::run, the loop: the sync of the next provider returns Err and `?`
\* returns it
RunSyncErr ==
    /\ rpc = "syncing"
    /\ \E name \in run.pending :
          /\ name \in DOMAIN runner.providers
          /\ run' = [run EXCEPT
                        !.calls = Append(@, SyncCall(name, runner.record_per_provider,
                                                     Unwrap(run.snapshot))),
                        !.result = Some(RunErr("sync failed"))]
    /\ rpc' = "done"
    /\ UNCHANGED <<cfg, todo, runner, fetchVars, fillVars, syncVars, backendVars>>

\* Runner::run: the loop is over, Ok(())
RunEnd ==
    /\ rpc = "syncing"
    /\ run.pending = {}
    /\ run' = [run EXCEPT !.result = Some(RunOk)]
    /\ rpc' = "done"
    /\ UNCHANGED <<cfg, todo, runner, fetchVars, fillVars, syncVars, backendVars>>

InitRun ==
    /\ InitFetchCommon
    /\ fetcher = HttpFetcherNew
    /\ InitFillIdle
    /\ InitSyncIdle
    /\ cfg \in Cfgs
    /\ rpc = "main"
    /\ todo = <<>>
    /\ runner = NoRunner
    /\ run = NoRun
    /\ InitBackendIdle

NextRun ==
    \/ InitRunnerCreate
    \/ ProcessProvider
    \/ InitRunnerDone
    \/ RunFetchPanic
    \/ RunFetchOk
    \/ RunFetchErr
    \/ RunSyncPanic
    \/ RunSyncOk
    \/ RunSyncErr
    \/ RunEnd

SpecRun == InitRun /\ [][NextRun]_vars

----------------------------------------------------------------------------
(* The backends of the HttpFetcher (src/src/fetcher/http_fetcher.rs) *)

\* A response body is a sequence of pieces of text.  A piece is a key with
\* its "=" ("ip=", "h="), a line feed, a blank, an address literal of either
\* family (kept as the address it denotes) or some other text.
Tok(kind, text, ip) == [kind |-> kind, text |-> text, ip |-> ip]
KeyIp == Tok("key", "ip=", NoAddr)
KeyH == Tok("key", "h=", NoAddr)
LineFeed == Tok("nl", "\n", NoAddr)
Blank == Tok("sp", " ", NoAddr)
Junk == Tok("text", "unknown", NoAddr)
Literal(ip) == Tok(IF ip[1] = 4 THEN "v4" ELSE "v6", "", ip)

\* the index of the first line feed of a text, 0 when it has none
FirstLineFeed(text) ==
    IF \E i \in DOMAIN text : text[i] = LineFeed
    THEN CHOOSE i \in DOMAIN text :
            text[i] = LineFeed /\ \A j \in 1..(i - 1) : text[j] # LineFeed
    ELSE 0

\* str::lines: the text between line feeds; an empty last line is not a line
RECURSIVE lines(_)
lines(text) ==
    IF text = <<>> THEN <<>>
    ELSE LET i == FirstLineFeed(text)
         IN IF i = 0 THEN <<text>>
            ELSE <<SubSeq(text, 1, i - 1)>> \o lines(SubSeq(text, i + 1, Len(text)))

\* line.starts_with("ip=")
starts_with_ip(line) == line # <<>> /\ line[1] = KeyIp

\* Result<(String, Vec<RecordLabel>)> of parse_content
ParseOk(text, labels) == [ok |-> TRUE, text |-> text, labels |-> labels]
ParseErr == [ok |-> FALSE, text |-> <<>>, labels |-> <<>>]

\* a plausible slip: the last line starting with "ip=" is taken
parse_content_cloudflare_last(content) ==
    LET ls == lines(content)
        found == {i \in DOMAIN ls : starts_with_ip(ls[i])}
    IN IF found = {} THEN ParseErr
       ELSE ParseOk(Tail(ls[CHOOSE i \in found : \A j \in found : j <= i]),
                    BackendLabels("cloudflare"))

\* CloudflareFetcher::parse_content: find() gives the first line starting with
\* "ip=", splitn(2, '=') its text after the first "="
parse_content_cloudflare(content) ==
    LET ls == lines(content)
        found == {i \in DOMAIN ls : starts_with_ip(ls[i])}
    IN IF found = {} THEN ParseErr
       ELSE ParseOk(Tail(ls[CHOOSE i \in found : \A j \in found : i <= j]),
                    BackendLabels("cloudflare"))

\* IpwFetcher::parse_content: content.to_string()
parse_content_ipw(content) == ParseOk(content, BackendLabels("ipw"))

parse_content(backend, content) ==
    IF backend = "cloudflare" THEN parse_content_cloudflare(content)
    ELSE parse_content_ipw(content)

\* ip.parse::<Ipv4Addr>() / ip.parse::<Ipv6Addr>(): the text is one address
\* literal of the family and nothing else
parse_addr(family, text) ==
    IF Len(text) = 1 /\ text[1].kind = (IF family = "A" THEN "v4" ELSE "v6")
    THEN Some(text[1].ip)
    ELSE None

\* wrapper::http::do_get_body: Ok(text) when the request went through with a
\* status of 200 to 299
do_get_body(response) ==
    IF response.sent /\ response.status >= HttpStatusOk /\ response.status <= 299
    THEN Some(response.body)
    ELSE None

\* Result<FetcherRecord> of fetch_v4 / fetch_v6
BackendOk(record) == [ok |-> TRUE, record |-> Some(record)]
BackendErr == [ok |-> FALSE, record |-> None]

\* HttpFetcherBackend::fetch_v4 / fetch_v6: get_body?, parse_content?, parse()?
backend_fetch(backend, family, response) ==
    LET body == do_get_body(response)
    IN IF body = None THEN BackendErr
       ELSE LET parsed == parse_content(backend, Unwrap(body))
            IN IF ~parsed.ok THEN BackendErr
               ELSE LET ip == parse_addr(family, parsed.text)
                    IN IF ip = None THEN BackendErr
                       ELSE BackendOk([value |-> IF family = "A" THEN ContentA(Unwrap(ip))
                                                 ELSE ContentAAAA(Unwrap(ip)),
                                       labels |-> parsed.labels])

\* the most lines a response body has here
MaxLines == 2

\* the lines the bodies are made of
BodyLines ==
    { <<>>, <<Blank>>, <<Junk>>, <<KeyIp>>, <<KeyIp, Junk>>, <<KeyH, Literal(<<4, 1>>)>>,
      <<Blank, KeyIp, Literal(<<4, 1>>)>>, <<KeyIp, Literal(<<4, 1>>), Blank>> }
        \cup {<<KeyIp, Literal(a)>> : a \in V4Addrs \cup V6Addrs}
        \cup {<<Literal(a)>> : a \in V4Addrs \cup V6Addrs}
        \cup {<<Blank, Literal(a), Blank>> : a \in V4Addrs}

\* the lines joined by line feeds
RECURSIVE Join(_)
Join(ls) ==
    IF ls = <<>> THEN <<>>
    ELSE IF Len(ls) = 1 THEN ls[1]
    ELSE ls[1] \o <<LineFeed>> \o Join(Tail(ls))

\* the bodies: up to MaxLines lines, with or without a line feed at the end
ResponseBodies ==
    LET texts == {Join(ls) : ls \in UNION {[1..n -> BodyLines] : n \in 1..MaxLines}}
    IN texts \cup {t \o <<LineFeed>> : t \in texts}

HttpResponses ==
    {HttpResponse(TRUE, st, body) : st \in {HttpStatusOk, 204, 500}, body \in ResponseBodies}
        \cup {HttpResponse(FALSE, 0, <<>>)}

Probes ==
    [backend : {"cloudflare", "ipw"}, family : {"A", "AAAA"}, response : HttpResponses]

\* a backend is asked for an address and gets some response
BackendPick ==
    /\ probe = NoProbe
    /\ probe' \in Probes
    /\ probeRet' = None
    /\ UNCHANGED <<fetchVars, fillVars, syncVars, runVars>>

\* fetch_v4() or fetch_v6() of the backend, on that response
BackendFetch ==
    /\ probeRet = None
    /\ probe # NoProbe
    /\ probeRet' = Some(backend_fetch(probe.backend, probe.family, probe.response))
    /\ UNCHANGED <<probe, fetchVars, fillVars, syncVars, runVars>>

InitBackend ==
    /\ InitFetchCommon
    /\ fetcher = HttpFetcherNew
    /\ InitFillIdle
    /\ InitSyncIdle
    /\ InitRunIdle
    /\ InitBackendIdle

NextBackend ==
    \/ BackendPick
    \/ BackendFetch

SpecBackend == InitBackend /\ [][NextBackend]_vars

----------------------------------------------------------------------------
(* Claims about the fetchers *)

\* the record of caller c's call, once it has returned
Returned(c) == call[c].ret # None
Reused(c) == call[c].requests = 0
SawFresh(c, lifetime) == call[c].seen_cache # None /\ call[c].seen_elapsed < lifetime

\* C1: a fetch() reuses the cache (no backend request) if and only if the cache is
\* non-empty and less than the lifetime has elapsed since the last fetch; at
\* exactly the lifetime a live fetch is performed.  (Stated for the calls made
\* a positive time after the last fetch.)
C1_ReusedIffYoungerThanLifetime ==
    (pc = "returned" /\ Returned(Direct) /\ call[Direct].seen_elapsed > 0)
        => (Reused(Direct) <=> SawFresh(Direct, fetcher.cache_alive_time))

\* C2: once a fetch has succeeded, every fetch() issued before the lifetime has
\* elapsed returns the value of that fetch and issues no backend request.
C2_FreshCacheIsReturned ==
    (pc = "returned" /\ SawFresh(Direct, fetcher.cache_alive_time))
        => /\ Reused(Direct)
           /\ call[Direct].ret = Some(Ok(Unwrap(call[Direct].seen_cache)))
           /\ fetcher.cache = call[Direct].seen_cache

\* a second call, some seconds after the fetch that filled the cache, has returned
C2_Witness ==
    /\ pc = "returned"
    /\ SawFresh(Direct, fetcher.cache_alive_time)
    /\ call[Direct].seen_elapsed > 0
    /\ Reused(Direct)

\* C3: a failed backend request ends the fetch with an error and no partial
\* result, no further backend is queried, and the cache and last_fetch_time are
\* as they were before the call.
C3_FailureKeepsCache ==
    [][(call[Direct].ret = None /\ call'[Direct].ret = Some(Err))
         => /\ fetcher' = fetcher
            /\ fetcher.cache = call[Direct].seen_cache
            /\ fetcher.elapsed >= call[Direct].seen_elapsed
            /\ call'[Direct].ret[1].value = <<>>
            /\ partial'[Direct] = <<>>
            /\ pc' = "returned"
            /\ call'[Direct].requests <= RequestCount(fetcher)]_vars

\* a fetch over a warm cache has failed at its third request
C3_Witness ==
    /\ pc = "returned"
    /\ call[Direct].ret = Some(Err)
    /\ call[Direct].seen_cache # None
    /\ call[Direct].requests = 3
    /\ fetcher.cache = call[Direct].seen_cache

\* C4: callers of the shared fetch() are serialised by the lock: at most one
\* is between its freshness check and the end of its live fetch, nobody else
\* checks meanwhile, and a caller that finds the cache refreshed within the
\* lifetime returns that value without a request.
C4_AtMostOneFetching ==
    /\ Cardinality({c \in Callers : gpc[c] = "fetching"}) <= 1
    /\ \A c \in Callers : gpc[c] = "fetching" => lockOwner = c
    /\ lockOwner # 0 => gpc[lockOwner] = "fetching"
    /\ \A c \in Callers :
          (gpc[c] = "returned" /\ SawFresh(c, global.lifetime))
             => /\ Reused(c)
                /\ call[c].ret = Some(Ok(Unwrap(call[c].seen_cache)))

C4_NoCheckWhileLocked ==
    \A c \in Callers :
       (lockOwner # 0 /\ c # lockOwner) => (gpc'[c] = gpc[c] \/ gpc'[c] = "idle")

C4_Serialized == [](C4_AtMostOneFetching) /\ [][C4_NoCheckWhileLocked]_vars

\* caller 1 has refreshed the cache and caller 2, calling some time after it,
\* has got that value without a request
C4_Witness ==
    /\ global.filled_by = 1
    /\ gpc[2] = "returned" /\ Reused(2)
    /\ call[2].seen_elapsed > 0
    /\ call[2].ret = Some(Ok(global.cache_result))

----------------------------------------------------------------------------
(* Claims about the fill and the synchronisation *)

FillArgIs(content, v4set, v6set) ==
    /\ fillRet # None
    /\ fillArg.record.content = content
    /\ (fillArg.ip.v4 # None) = v4set
    /\ (fillArg.ip.v6 # None) = v6set

\* C5: Unassigned(A) with a v4 address becomes A(v4) and Unassigned(AAAA) with
\* a v6 address becomes AAAA(v6); Unassigned(A) without v4 and Unassigned(AAAA)
\* without v6 are errors, whatever the other family holds: an address of the
\* other family is never substituted.
C5_FillByFamily ==
    fillRet # None =>
       LET r == fillArg.record
           out == Unwrap(fillRet)
       IN /\ (r.content = Unassigned("A") /\ fillArg.ip.v4 # None)
                => out = FillOk([r EXCEPT !.content = ContentA(Unwrap(fillArg.ip.v4))])
          /\ (r.content = Unassigned("AAAA") /\ fillArg.ip.v6 # None)
                => out = FillOk([r EXCEPT !.content = ContentAAAA(Unwrap(fillArg.ip.v6))])
          /\ (r.content = Unassigned("A") /\ fillArg.ip.v4 = None)
                => (~out.ok /\ out.record = r)
          /\ (r.content = Unassigned("AAAA") /\ fillArg.ip.v6 = None)
                => (~out.ok /\ out.record = r)
          /\ out.ok => \/ out.record.content.tag = "A" /\ out.record.content.ip \in V4Addrs
                       \/ out.record.content.tag = "AAAA" /\ out.record.content.ip \in V6Addrs

\* the fill of an A record from a PublicIp holding only a v6 address has failed
C5_Witness ==
    /\ FillArgIs(Unassigned("A"), FALSE, TRUE)
    /\ ~Unwrap(fillRet).ok

\* a record of zone z is pending and its family is absent from the PublicIp
Unfillable(z) ==
    \E i \in 1..Len(topology[z]) :
       LET c == topology[z][i].content IN
       /\ c.tag = "Unassigned"
       /\ \/ c.text = "A" /\ publicIp.v4 = None
          \/ c.text = "AAAA" /\ publicIp.v6 = None

\* C6: if a pending record of a zone cannot be filled from the PublicIp, no
\* batch is submitted for any record of that zone in the pass, the records
\* before the failing one included.
C6_NoBatchForUnfillableZone ==
    \A z \in DOMAIN topology : Unfillable(z) => log.batches[z] = 0

\* the zone's second record could not be filled, the first one could, the
\* zone's pass has failed and no batch was submitted
C6_Witness ==
    /\ topology = OneZone(Zone1, <<RecHomeA, RecHomeAAAA>>)
    /\ publicIp.v4 # None /\ publicIp.v6 = None
    /\ log.lookups[Zone1] = 1
    /\ result = Some(SyncErr("record cannot be filled"))
    /\ log.batches[Zone1] = 0

\* C7: the batch of a synced record holds one delete per remote record of the
\* record's qualified name, of any type and however many there are, and one
\* post, whatever the configured op; every synced record gets its batch.
C7_BatchDeletesEverySameName ==
    /\ lastBatch # None =>
          /\ Unwrap(lastBatch).deletes = Unwrap(lastBatch).same_name
          /\ Len(Unwrap(lastBatch).posts) = 1
    /\ result # Some(SyncErr("multiple records found"))

\* C8: when the lookup of a zone's name returns two or more zones, the zone's
\* sync ends in an error and no record-list or batch call is made for it.
C8_AmbiguousZoneIsAnError ==
    \A z \in DOMAIN topology :
       (log.lookups[z] > 0 /\ zoneCount[z] >= 2)
          => /\ spc = "done"
             /\ result # None /\ ~Unwrap(result).ok
             /\ log.lists[z] = 0
             /\ log.batches[z] = 0

\* the lookup has answered with two zones and the pass has ended in that error
C8_Witness ==
    /\ zoneCount[Zone1] = 2
    /\ log.lookups[Zone1] = 1
    /\ result = Some(SyncErr("multiple zones found"))
    /\ log.lists[Zone1] = 0 /\ log.batches[Zone1] = 0

C9_NoCallsForMissingZone ==
    /\ \A z \in DOMAIN topology :
          zoneCount[z] = 0 => (log.lists[z] = 0 /\ log.batches[z] = 0)
    /\ (spc = "done" /\ result = Some(SyncOk))
          => \A z \in DOMAIN topology :
                /\ log.lookups[z] = 1
                /\ zoneCount[z] = 1 => log.batches[z] = Len(topology[z])

C9_LookupMissSkips ==
    \A z \in DOMAIN topology :
       (zoneCount[z] = 0 /\ pass' = pass /\ log'.lookups[z] = log.lookups[z] + 1)
          => \/ /\ result' = None
                /\ spc' = "zones"
                /\ remaining' = remaining \ {z}
             \/ result' = Some(SyncErr("zone list failed"))

\* C9: a zone whose lookup returns no zone is skipped without an error and
\* without a record-list or batch call, and the other zones of the provider
\* are still looked up and synced in the pass.
C9_MissingZoneIsSkipped == [](C9_NoCallsForMissingZone) /\ [][C9_LookupMissSkips]_vars

\* the first zone was not found, the second was synced and the pass is Ok
C9_Witness ==
    /\ DOMAIN topology = {Zone1, Zone2}
    /\ zoneCount[Zone1] = 0 /\ zoneCount[Zone2] = 1
    /\ spc = "done" /\ result = Some(SyncOk)
    /\ log.lookups[Zone1] = 1
    /\ log.batches[Zone2] = Len(topology[Zone2])
    /\ remote # {}

\* C10: after a successful pass, a second pass with the same configuration and
\* PublicIp leaves the remote records equivalent: one record per synced name,
\* with the desired body, and the second pass deletes exactly the records the
\* first one created.
C10_SecondPassChangesNothing ==
    (spc = "done" /\ result = Some(SyncOk) /\ prev.ran /\ prev.ok)
       => /\ Bodies(remote) = prev.bodies
          /\ log.deleted = prev.created
          /\ \A z \in DOMAIN topology : \A i \in 1..Len(topology[z]) :
                zoneCount[z] = 1 =>
                   Cardinality({r \in remote :
                                   /\ r.zone = <<z, 1>>
                                   /\ r.name = QualifiedName(topology[z][i].name, z)}) = 1

\* the batch submitted last, the record of the configuration it is for, and
\* the name of the zone it goes to
Batch == Unwrap(lastBatch)
Posted == Batch.posts[1]
LastPiece(name) == name[Len(name)]

\* C11: a record name that does not end with the zone's name is synced as
\* "<name>.<zone>", a name that ends with it is synced unchanged, and
\* qualifying the synced name again changes nothing.
C11_NameIsQualifiedOnce ==
    lastBatch # None =>
       LET name == Batch.source.name
           z == Batch.zone[1]
       IN /\ LastPiece(name) = z => Posted.name = name
          /\ LastPiece(name) # z => Posted.name = name \o <<".", z>>
          /\ QualifiedName(Posted.name, z) = Posted.name

\* "home" went to example.com as home.example.com and then "home.example.com"
\* went there unchanged, replacing it
C11_Witness ==
    /\ lastBatch # None
    /\ topology = OneZone(Zone1, <<RecHomeA, RecHomePurgeA>>)
    /\ Batch.source = RecHomePurgeA
    /\ Posted.name = <<"home", ".", Zone1>>
    /\ Batch.deletes # {}
    /\ Cardinality(remote) = 1

\* C12: the posted body has ttl 1 for TTL::Auto and n for TTL::Value(n),
\* proxied true exactly when a param is ("proxied", "true"), and the comment
\* of the record.
C12_PostedBody ==
    lastBatch # None =>
       LET r == Batch.source IN
       /\ r.ttl.tag = "Auto" => Posted.ttl = 1
       /\ r.ttl.tag = "Value" => Posted.ttl = r.ttl.secs
       /\ Posted.proxied =
             (\E i \in 1..Len(r.params) : r.params[i] = ProviderParam("proxied", "true"))
       /\ Posted.comment = r.comment

\* a record with ("proxied", "false") and TTL::Auto was posted
C12_Witness ==
    /\ lastBatch # None
    /\ Batch.source = RecWwwFixed
    /\ Posted.ttl = 1
    /\ ~Posted.proxied

\* C13: a response whose status is not 200 or whose success flag is false
\* makes the operation, and with it the pass, return an error, for the zone
\* list, the record list and the batch alike, and no request follows it in
\* the pass.
C13_RefusedResponseIsAnError ==
    /\ [](/\ log.refused <= 1
          /\ log.refused = 1 => (spc = "done" /\ result # None /\ ~Unwrap(result).ok))
    /\ [][(log'.refused = log.refused + 1)
             => /\ result' # None /\ ~Unwrap(result').ok
                /\ remote' = remote]_vars

\* a batch was answered with status 200 and success = false after a zone
\* list and a record list that were accepted
C13_Witness ==
    /\ log.refused = 1
    /\ log.last = Response(HttpStatusOk, FALSE)
    /\ result = Some(SyncErr("batch failed"))
    /\ log.lookups[Zone1] = 1 /\ log.lists[Zone1] = 1 /\ log.batches[Zone1] = 1

----------------------------------------------------------------------------
(* Claims about the runner *)

\* the attachments of the configuration that name provider p and zone z
AttachedTo(p, z) ==
    SelectSeq(Attachments(cfg.records),
              LAMBDA a : a.provider.name = p /\ z \in Range(a.provider.zones))

\* the pending records the configuration attaches to provider p in zone z
AttachedRecords(p, z) ==
    {into_provider_record(a.record, a.provider.params) : a \in Range(AttachedTo(p, z))}

\* C14: in one run() the public IP is fetched exactly once, and every provider
\* sync invoked in that run receives the same PublicIp value, the one of the
\* snapshot taken, and exactly the zone-to-records slice of its own provider:
\* every record it is handed is attached to that provider in that zone, and
\* every record attached to that provider is handed to it.
C14_OneSnapshotOwnSlice ==
    /\ run.fetches <= 1
    /\ rpc \in {"syncing", "done"} => run.fetches = 1
    /\ run.calls # <<>> => run.snapshot # None
    /\ \A i \in DOMAIN run.calls :
          LET sc == run.calls[i]
          IN /\ sc.ip = PublicIpFrom(Unwrap(run.snapshot))
             /\ \A j \in DOMAIN run.calls : run.calls[j].ip = sc.ip
             /\ sc.records = runner.record_per_provider[sc.provider]
             /\ \A z \in DOMAIN sc.records :
                   Range(sc.records[z]) = AttachedRecords(sc.provider, z)
             /\ \A z \in {Zone1, Zone2} :
                   AttachedRecords(sc.provider, z) # {} => z \in DOMAIN sc.records

C14_Witness ==
    /\ rpc = "done"
    /\ run.result = Some(RunOk)
    /\ Len(run.calls) = 2
    /\ run.calls[1].provider # run.calls[2].provider
    /\ run.calls[1].records # run.calls[2].records
    /\ run.calls[1].ip.v4 # None
    /\ run.calls[1].ip.v6 # None

\* C15: if the public-IP fetch of a pass fails, run() returns that error, no
\* provider sync is invoked in that pass, and no provider API call is made:
\* the pass is over at once and the remote zones are as they were.
C15_FetchFailureStopsThePass ==
    /\ [](run.fetch_failed =>
             /\ rpc = "done"
             /\ run.result = Some(RunErr("fetch failed"))
             /\ run.calls = <<>>
             /\ run.pending = {})
    /\ [][run'.fetch_failed => UNCHANGED syncVars]_vars

C15_Witness ==
    /\ run.fetch_failed
    /\ rpc = "done"
    /\ run.fetches = 1
    /\ DOMAIN runner.record_per_provider \cap DOMAIN runner.providers # {}

\* the providers whose sync was invoked in this run
Invoked == {run.calls[i].provider : i \in DOMAIN run.calls}

\* C16: a provider error raised while syncing aborts the pass only up to the
\* zone it was raised in: when a run whose public-IP fetch succeeded is over,
\* the sync of every provider of the topology has been invoked, whether or
\* not the sync of another provider returned an error.
C16_OtherProvidersStillSynced ==
    (/\ rpc = "done"
     /\ ~run.fetch_failed
     /\ DOMAIN runner.record_per_provider \subseteq DOMAIN runner.providers) =>
        \A p \in DOMAIN runner.record_per_provider : p \in Invoked

\* the attachments process_provider has been called with so far
Processed ==
    SubSeq(Attachments(cfg.records), 1, Len(Attachments(cfg.records)) - Len(todo))

\* the (record, attachment, zone) triples of the attachments atts that name
\* provider p and zone z, in configuration order
RECURSIVE Triples(_, _, _)
Triples(atts, p, z) ==
    IF atts = <<>> THEN <<>>
    ELSE LET a == atts[Len(atts)]
             n == IF a.provider.name = p
                  THEN Len(SelectSeq(a.provider.zones, LAMBDA x : x = z))
                  ELSE 0
         IN Triples(SubSeq(atts, 1, Len(atts) - 1), p, z) \o [i \in 1..n |-> a]

IsPrefix(s, t) == Len(s) <= Len(t) /\ SubSeq(t, 1, Len(s)) = s

\* C17: the topology builder appends one pending record per (record, provider
\* attachment, zone) triple: once init_runner has built the record map, the
\* list of provider p and zone z has one entry per triple with that p and z
\* (duplicates kept), in configuration order, each with the record's name,
\* content, ttl, comment and op and the attachment's params; and no step of
\* the builder removes or replaces an entry added earlier.
C17_TopologyAppends ==
    /\ [](rpc # "main" =>
             \A p \in {"cf1", "cf2", "cf3"}, z \in {Zone1, Zone2} :
                LET triples == Triples(Processed, p, z)
                    map == runner.record_per_provider
                    list == IF p \in DOMAIN map /\ z \in DOMAIN map[p]
                            THEN map[p][z] ELSE <<>>
                IN /\ Len(list) = Len(triples)
                   /\ triples # <<>> => (p \in DOMAIN map /\ z \in DOMAIN map[p])
                   /\ \A i \in DOMAIN list :
                         /\ list[i].name = triples[i].record.name
                         /\ list[i].content = triples[i].record.content
                         /\ list[i].ttl = triples[i].record.ttl
                         /\ list[i].comment = triples[i].record.comment
                         /\ list[i].op = triples[i].record.op
                         /\ list[i].params = triples[i].provider.params)
    /\ [][\A p \in DOMAIN runner.record_per_provider :
             /\ p \in DOMAIN runner'.record_per_provider
             /\ \A z \in DOMAIN runner.record_per_provider[p] :
                   /\ z \in DOMAIN runner'.record_per_provider[p]
                   /\ IsPrefix(runner.record_per_provider[p][z],
                               runner'.record_per_provider[p][z])]_vars

\* the duplicates list: cf1 is attached three times to one zone by the first
\* record (once, then twice by a repeated zone) and once by the second
C17_Witness ==
    /\ rpc = "ready"
    /\ "cf1" \in DOMAIN runner.record_per_provider
    /\ Len(runner.record_per_provider["cf1"][Zone1]) = 4
    /\ runner.record_per_provider["cf1"][Zone1][2]
          = runner.record_per_provider["cf1"][Zone1][3]
    /\ runner.record_per_provider["cf1"][Zone1][1].params
          # runner.record_per_provider["cf1"][Zone1][2].params
    /\ "cf2" \in DOMAIN runner.record_per_provider
    /\ DOMAIN runner.record_per_provider["cf2"] = {}

\* the provider names at least one configured record attaches to
NamedProviders ==
    {name \in {"cf1", "cf2", "cf3"} :
        \E i \in DOMAIN cfg.records :
           \E j \in DOMAIN cfg.records[i].providers :
              cfg.records[i].providers[j].name = name}

\* the fetcher names at least one configured record lists
NamedFetchers ==
    {name \in {"http1", "http2", "spare"} :
        \E i \in DOMAIN cfg.records :
           \E j \in DOMAIN cfg.records[i].fetchers : cfg.records[i].fetchers[j] = name}

ExactlyOneMode(auth) ==
    LET token == get_value_ref(auth, "api_token") # None
        email == get_value_ref(auth, "email") # None
        key == get_value_ref(auth, "key") # None
    IN \/ auth.method = "api_token" /\ token /\ ~email /\ ~key
       \/ auth.method = "api_key" /\ email /\ key /\ ~token

\* C19: building a Cloudflare provider's authentication succeeds exactly when
\* one mode is supplied, yielding ApiToken for api_token with a token and
\* ApiKey for api_key with email and key; with both modes, neither, half a
\* key pair or an unsupported method, construction ends with a configuration
\* error: the runner is never built and run() never starts or panics.
C19_AuthErrorAtConstruction ==
    LET auth == cfg.providers[1].authentication
        built == try_from(auth)
    IN rpc # "main" =>
          /\ built.ok <=> ExactlyOneMode(auth)
          /\ built.ok => built.kind = (IF auth.method = "api_token" THEN "ApiToken"
                                       ELSE "ApiKey")
          /\ ~ExactlyOneMode(auth) =>
                /\ runner.init # Some(RunOk)
                /\ rpc \notin {"ready", "syncing", "done", "panicked"}

\* the address of the last entry of the set whose content is of kind tag
LastOf(set, tag) ==
    LET at == {i \in DOMAIN set : set[i].value.tag = tag}
    IN IF at = {} THEN None
       ELSE Some(set[CHOOSE i \in at : \A j \in at : j <= i].value.ip)

\* C20: converting a FetcherRecordSet to a PublicIp yields v4 = the address of
\* the last A entry of the set and v6 = the address of the last AAAA entry,
\* None for a family with no entry: the PublicIp every sync of a run is handed
\* is that of the snapshot, whatever earlier entries of the same family and
\* entries of other kinds the snapshot holds.
C20_LastEntryOfEachFamily ==
    \A i \in DOMAIN run.calls :
       /\ run.calls[i].ip.v4 = LastOf(Unwrap(run.snapshot), "A")
       /\ run.calls[i].ip.v6 = LastOf(Unwrap(run.snapshot), "AAAA")

C20_Witness ==
    /\ run.calls # <<>>
    /\ Len(Unwrap(run.snapshot)) = 2
    /\ Unwrap(run.snapshot)[1].value.tag = "A"
    /\ Unwrap(run.snapshot)[2].value.tag = "A"
    /\ Unwrap(run.snapshot)[1].value.ip # Unwrap(run.snapshot)[2].value.ip
    /\ run.calls[1].ip = PublicIpNew(Some(Unwrap(run.snapshot)[2].value.ip), None)

----------------------------------------------------------------------------
(* Claims about a live fetch *)

\* the call of the direct caller has just returned Ok from the backends
LiveOk ==
    /\ pc = "returned"
    /\ call[Direct].requests > 0
    /\ Unwrap(call[Direct].ret).ok

\* C21: a successful live fetch returns, for each enabled backend in the
\* configured order, that backend's A entry immediately followed by its AAAA
\* entry, 2 x number-of-backends entries in all, each labelled with the
\* backend it came from; an A entry holds an IPv4 address and an AAAA entry
\* an IPv6 address.
C21_BackendOrderV4ThenV6 ==
    LiveOk =>
        LET records == Unwrap(call[Direct].ret).value
        IN /\ Len(records) = 2 * Len(fetcher.backends)
           /\ \A k \in 1..Len(fetcher.backends) :
                 /\ records[2 * k - 1].value.tag = "A"
                 /\ records[2 * k - 1].value.ip \in V4Addrs
                 /\ records[2 * k - 1].labels = <<RecordLabel("backend", fetcher.backends[k])>>
                 /\ records[2 * k].value.tag = "AAAA"
                 /\ records[2 * k].value.ip \in V6Addrs
                 /\ records[2 * k].labels = <<RecordLabel("backend", fetcher.backends[k])>>

C21_Witness ==
    /\ LiveOk
    /\ fetcher.backends = <<"ipw", "cloudflare">>
    /\ Len(Unwrap(call[Direct].ret).value) = 4
    /\ Unwrap(call[Direct].ret).value[1].labels = <<RecordLabel("backend", "ipw")>>
    /\ Unwrap(call[Direct].ret).value[3].labels = <<RecordLabel("backend", "cloudflare")>>
    /\ Unwrap(call[Direct].ret).value[1].value.ip # Unwrap(call[Direct].ret).value[3].value.ip

\* the entries of a record set whose content is of kind tag
EntriesOf(records, tag) == {i \in DOMAIN records : records[i].value.tag = tag}

\* the addresses the entries of kind tag hold
ValuesOf(records, tag) == {records[i].value.ip : i \in EntriesOf(records, tag)}

\* C22, as stated: the record set returned by one full fetch pass contains at
\* most one A value and at most one AAAA value, whatever the enabled backends.
C22_AtMostOnePerFamily ==
    LiveOk =>
        /\ Cardinality(ValuesOf(Unwrap(call[Direct].ret).value, "A")) <= 1
        /\ Cardinality(ValuesOf(Unwrap(call[Direct].ret).value, "AAAA")) <= 1

\* C22, amended: the record set returned by one full fetch pass holds exactly
\* one A entry and one AAAA entry per enabled backend and nothing else; it is
\* the PublicIp made from the set that holds one v4 and one v6 value, those
\* of the last backend.
C22_OnePerFamilyPerBackend ==
    LiveOk =>
        LET records == Unwrap(call[Direct].ret).value
            n == Len(fetcher.backends)
        IN /\ Cardinality(EntriesOf(records, "A")) = n
           /\ Cardinality(EntriesOf(records, "AAAA")) = n
           /\ Len(records) = 2 * n
           /\ PublicIpFrom(records)
                 = PublicIpNew(Some(records[2 * n - 1].value.ip), Some(records[2 * n].value.ip))

C22_Witness ==
    /\ LiveOk
    /\ fetcher.backends = <<"cloudflare", "ipw">>
    /\ Cardinality(ValuesOf(Unwrap(call[Direct].ret).value, "A")) = 2
    /\ PublicIpFrom(Unwrap(call[Direct].ret).value).v4
          = Some(Unwrap(call[Direct].ret).value[3].value.ip)

\* C23: during one live fetch each enabled backend receives at most one
\* request per address family, exactly one of each when the fetch succeeds,
\* and no request is repeated after a failure: the requests made so far are
\* the answered ones, one per entry of the backend list and family in order,
\* plus at most the one that failed, which ends the call; a fetch() call
\* never makes more than 2 x number-of-backends requests.
C23_OneRequestPerBackendAndFamily ==
    /\ [](/\ call[Direct].requests <= 2 * Len(fetcher.backends)
          /\ pc = "fetching" =>
                /\ call[Direct].requests = Len(partial[Direct])
                /\ \A i \in DOMAIN partial[Direct] :
                      /\ partial[Direct][i].value.tag = (IF i % 2 = 1 THEN "A" ELSE "AAAA")
                      /\ partial[Direct][i].labels
                            = <<RecordLabel("backend", fetcher.backends[(i + 1) \div 2])>>
          /\ LiveOk => call[Direct].requests = 2 * Len(fetcher.backends))
    /\ [][/\ call'[Direct].requests <= call[Direct].requests + 1
          /\ (pc = "fetching" /\ call'[Direct].ret = Some(Err)) =>
                /\ pc' = "returned"
                /\ call'[Direct].requests = call[Direct].requests + 1
          /\ pc = "returned" => call'[Direct].requests \in {0, call[Direct].requests}]_vars

\* the third request of a fetch from two backends failed
C23_Witness ==
    /\ pc = "returned"
    /\ Len(fetcher.backends) = 2
    /\ call[Direct].requests = 3
    /\ call[Direct].ret = Some(Err)

----------------------------------------------------------------------------
(* Claims about the backends *)

\* the call of a backend at hand has returned
Probed(backend) == probeRet # None /\ probe.backend = backend

\* the lines of the body at hand that start with "ip="
IpLines == {i \in DOMAIN lines(probe.response.body) : starts_with_ip(lines(probe.response.body)[i])}

\* the text is one address literal of the family and nothing else
IsLiteralOf(family, text) ==
    /\ Len(text) = 1
    /\ text[1] \in {Literal(a) : a \in (IF family = "A" THEN V4Addrs ELSE V6Addrs)}

\* C24: the Cloudflare-trace parser returns the text after "ip=" of the first
\* line starting with "ip=" together with one backend label, and fails when
\* no line starts with "ip="; a fetch through this backend returns an error
\* when the body has no such line or when that text is not an address literal
\* of the requested family, and else, the response being a success, returns
\* the address of that literal.
C24_CloudflareTraceParser ==
    Probed("cloudflare") =>
        LET ls == lines(probe.response.body)
            parsed == parse_content_cloudflare(probe.response.body)
            ret == Unwrap(probeRet)
        IN /\ parsed.ok <=> IpLines # {}
           /\ parsed.ok =>
                 /\ \E i \in IpLines :
                       /\ \A j \in IpLines : i <= j
                       /\ <<KeyIp>> \o parsed.text = ls[i]
                 /\ parsed.labels = <<RecordLabel("backend", "cloudflare")>>
           /\ IpLines = {} => ~ret.ok
           /\ (parsed.ok /\ ~IsLiteralOf(probe.family, parsed.text)) => ~ret.ok
           /\ (/\ parsed.ok
               /\ IsLiteralOf(probe.family, parsed.text)
               /\ probe.response.sent
               /\ probe.response.status = HttpStatusOk) =>
                 /\ ret.ok
                 /\ Unwrap(ret.record).value.ip = parsed.text[1].ip
                 /\ Unwrap(ret.record).value.tag = probe.family

\* two lines start with "ip=" and hold different addresses: the first is taken
C24_Witness ==
    /\ Probed("cloudflare")
    /\ Cardinality(IpLines) = 2
    /\ probe.family = "A"
    /\ Unwrap(probeRet).ok
    /\ lines(probe.response.body)[2] # lines(probe.response.body)[1]
    /\ Unwrap(Unwrap(probeRet).record).value.ip = lines(probe.response.body)[1][2].ip

\* str::trim: the text without the blanks and line feeds at its two ends
IsSpace(t) == t = Blank \/ t = LineFeed
Trim(text) ==
    LET inked == {i \in DOMAIN text : ~IsSpace(text[i])}
    IN IF inked = {} THEN <<>>
       ELSE SubSeq(text, CHOOSE i \in inked : \A j \in inked : i <= j,
                         CHOOSE i \in inked : \A j \in inked : j <= i)

\* C25: the plaintext-echo (ipw) backend takes the whole response body with
\* leading and trailing whitespace removed as the IP literal: a successful
\* response whose trimmed body is an address literal of the requested family,
\* such as an address followed by a line feed, yields that address and not a
\* parse error.
C25_IpwTakesTrimmedBody ==
    (/\ Probed("ipw")
     /\ probe.response.sent
     /\ probe.response.status = HttpStatusOk
     /\ IsLiteralOf(probe.family, Trim(probe.response.body))) =>
        /\ Unwrap(probeRet).ok
        /\ Unwrap(Unwrap(probeRet).record).value.ip = Trim(probe.response.body)[1].ip

----------------------------------------------------------------------------
(* Claims about the fill step of a zone sync *)

IsConcrete(content) == content.tag \in {"A", "AAAA", "CNAME"}

----------------------------------------------------------------------------
(* Claims about the age of what the shared fetch() returns *)

\* the longer of the two lifetimes behind fetcher::global::fetch
LongerLifetime ==
    IF global.lifetime > fetcher.cache_alive_time
    THEN global.lifetime ELSE fetcher.cache_alive_time

\* C27: fetch() never returns a stale value: a value it returns is the one the
\* last completed live fetch obtained, and that fetch completed at most one
\* lifetime before the return (the longer of the two lifetimes is granted
\* here); a call that finds the cache stale and gets no value returns the
\* error after having tried a live fetch.
C27_NeverStale ==
    \A c \in Callers :
       gpc[c] = "returned" =>
          IF Unwrap(call[c].ret).ok
          THEN /\ Unwrap(call[c].ret).value = Unwrap(fetcher.cache)
               /\ fetcher.elapsed <= LongerLifetime
          ELSE call[c].requests > 0

----------------------------------------------------------------------------
(* Claims about the maps of the Runner *)

\* C28: for every configuration init_runner accepts, every key of
\* record_per_provider has a client in the provider map and the designated
\* public-IP fetcher has an entry in the fetcher map, so that neither run()
\* nor fetch_public_ip() meets a missing entry and panics.
C28_NoMissingEntry ==
    /\ runner.init = Some(RunOk) =>
          /\ DOMAIN runner.record_per_provider \subseteq DOMAIN runner.providers
          /\ cfg.public_ip_fecher \in DOMAIN runner.fetchers
    /\ rpc # "panicked"

----------------------------------------------------------------------------
(* Claims about the end of a call of the shared fetch() *)

\* fetch() has returned to some caller, or to nobody: the guard is dropped
C29_LockReleasedOnReturn ==
    /\ \A c \in Callers : gpc[c] \in {"idle", "returned"} => lockOwner # c
    /\ (\E c \in Callers : gpc[c] = "returned") => lockOwner = 0

----------------------------------------------------------------------------
(* Claims about a fetcher built without a lifetime *)

\* the parameter lists that are not empty and give no cache_alive_time
ArgsWithoutLifetime ==
    {args \in FetcherArgs :
        args # <<>> /\ \A i \in 1..Len(args) : args[i].name # "cache_alive_time"}

\* the fetcher is one that new_with_args has built from such a list
BuiltWithoutLifetime ==
    \E args \in ArgsWithoutLifetime :
       [fetcher EXCEPT !.cache = None, !.elapsed = 0] = new_with_args(args)

\* C30: an HttpFetcher that new_with_args builds from a parameter list that
\* is not empty and has no cache_alive_time gets the lifetime 0, not the 30
\* seconds of new(); every fetch() of it called a positive time after the
\* last fetch queries the backends, and returns what they answer or an
\* error, never the cache.
C30_NoLifetimeMeansNoReuse ==
    /\ \A args \in ArgsWithoutLifetime :
          /\ new_with_args(args).cache_alive_time = 0
          /\ new_with_args(args).cache_alive_time # HttpFetcherNew.cache_alive_time
    /\ BuiltWithoutLifetime =>
          /\ fetcher.cache_alive_time = 0
          /\ (pc = "returned" /\ call[Direct].seen_elapsed > 0) =>
                /\ call[Direct].requests > 0
                /\ Unwrap(call[Direct].ret).ok =>
                      /\ call[Direct].requests = RequestCount(fetcher)
                      /\ fetcher.elapsed = 0

\* such a fetcher, called one second after it filled its cache, has queried
\* every backend again
C30_Witness ==
    /\ BuiltWithoutLifetime
    /\ pc = "returned"
    /\ call[Direct].seen_cache # None
    /\ call[Direct].seen_elapsed = 1
    /\ call[Direct].requests = RequestCount(fetcher)
    /\ Unwrap(call[Direct].ret).ok

====
